---- MODULE Spec2Model ----
(***************************************************************************)
(* Verification model of                                                   *)
(*   - the PDL dialect verifiers (mlir/lib/Dialect/PDL/IR/PDL.cpp), and     *)
(*   - the rendering of HoverInfo (HoverInfo::present and the value         *)
(*     printer), as pinned down by the Hover unit tests.                    *)
(*                                                                         *)
(* PDL part: the state is a pdl.pattern under construction.  'ops' lists    *)
(* every operation in creation order; an operation's id is its index.  An   *)
(* operation with parent "pattern" lives in the body block of the pattern,  *)
(* one with parent "rewrite" in the block of the pdl.rewrite region; the    *)
(* order inside a block is the order of the ids.  Operands always refer to  *)
(* operations with a smaller id (SSA dominance).                            *)
(***************************************************************************)
EXTENDS Integers, Sequences, FiniteSets, TLC

VARIABLES ops, pc, opDiag, patDiag, Constant, HI, rendered,
          executor, Records, parsed, selection

vars == <<ops, pc, opDiag, patDiag, Constant, HI, rendered,
          executor, Records, parsed, selection>>

-----------------------------------------------------------------------------
(* Bounds *)

\* The number of operations of a pattern, per specification.
MaxBindOps == 3
MaxConnOps == 4
MaxInferOps == 4
MaxReplaceOps == 4
MaxPatternOps == 4
MaxOrderOps == 5
\* The length of an operand list.
MaxOperands == 1
\* The number of result types of an operation created in the rewrite.
MaxResultTypes == 2
\* The number of attribute values, and of attribute names, of an operation.
MaxAttrs == 1
\* The sizes, offsets and paddings of a hover, in bits.
MaxBits == 16
\* The number of freely chosen hexadecimal digits of an evaluated constant.
MaxDigits == 1
\* The number of symbols an include provides.
MaxNames == 7
\* The number of characters of a documentation comment.
MaxDocLen == 5
MaxTgt == 1
MaxEn == 1

-----------------------------------------------------------------------------
(* Generic helpers *)

Range(s) == {s[i] : i \in 1..Len(s)}

SeqsUpTo(S, n) == UNION {[1..k -> S] : k \in 0..n}

\* The sequences of at most n distinct numbers of S, in increasing order.
IncSeqsUpTo(S, n) ==
  {s \in SeqsUpTo(S, n) : \A i \in 1..Len(s) - 1 : s[i] < s[i + 1]}

-----------------------------------------------------------------------------
(* Hover.  An optional field (std::optional) is a sequence of length at    *)
(* most one.  Sizes, offsets, paddings and alignments are counted in bits. *)
(* An evaluated integer constant is held in two's complement as a sequence *)
(* of hexadecimal digits (nibbles), most significant first.                *)

nullopt == <<>>
has_value(o) == o # <<>>
Opt(S) == {nullopt} \cup {<<x>> : x \in S}

\* The match table executor before it runs.
NoExecution ==
  [CurrentIdx |-> 0, OnFailResumeAt |-> <<>>, MIs |-> <<>>, TempRegisters |-> <<>>,
   OutMIs |-> <<>>, Erased |-> <<>>, Executed |-> <<>>, RuleEnabled |-> FALSE,
   Result |-> "idle"]

\* A HoverInfo as its constructor leaves it.
DefaultHoverInfo ==
  [Value |-> nullopt, Offset |-> nullopt, Size |-> nullopt,
   Padding |-> nullopt, Align |-> nullopt,
   CalleeArgInfo |-> nullopt, CallPassType |-> nullopt,
   Documentation |-> <<>>, UsedSymbolNames |-> <<>>]

PrintedType(t, aka) == [Type |-> t, AKA |-> aka]
Param(name, type, default) == [Name |-> name, Type |-> type, Default |-> default]
PassType(passBy, converted) == [PassBy |-> passBy, Converted |-> converted]

PassModes == {"Value", "Ref", "ConstRef"}

\* "10 bytes", "1 byte", "25 bits": whole bytes where the size allows it.
formatSize(SizeInBits) ==
  LET Value == IF SizeInBits % 8 = 0 THEN SizeInBits \div 8 ELSE SizeInBits
      Unit == IF Value # 0 /\ Value = SizeInBits THEN "bit" ELSE "byte"
  IN  ToString(Value) \o " " \o Unit \o (IF Value = 1 THEN "" ELSE "s")

formatOffsetAsSize(OffsetInBits) == formatSize(OffsetInBits)

\* Offsets are shown in bytes and bits.
formatOffset(OffsetInBits) ==
  LET Bytes == OffsetInBits \div 8
      Bits == OffsetInBits % 8
  IN  formatSize(Bytes * 8) \o (IF Bits # 0 THEN " and " \o formatSize(Bits) ELSE "")

\* A document is the sequence of its paragraphs; 'para' names the statement
\* of present() that added the paragraph.
paragraph(p, t) == <<[para |-> p, text |-> t]>>

presentValue(H) ==
  IF has_value(H.Value) THEN paragraph("Value", "Value = " \o H.Value[1]) ELSE <<>>

presentOffset(H) ==
  IF has_value(H.Offset)
  THEN paragraph("Offset", "Offset: " \o formatOffset(H.Offset[1]))
  ELSE <<>>

\* Padding and alignment are printed on the line of the size.
presentSize(H) ==
  IF has_value(H.Size)
  THEN paragraph("Size",
         "Size: " \o formatSize(H.Size[1])
         \o (IF has_value(H.Padding)
             THEN " (+" \o formatSize(H.Padding[1]) \o " padding)" ELSE "")
         \o (IF has_value(H.Align)
             THEN ", alignment " \o formatSize(H.Align[1]) ELSE ""))
  ELSE <<>>

presentPassedWithMode(H) ==
  LET Arg == H.CalleeArgInfo[1]
      Pass == H.CallPassType[1]
  IN  IF has_value(H.CalleeArgInfo)
      THEN paragraph("Passed",
             "Passed"
             \o (IF Pass.PassBy = "Ref" THEN " by reference"
                 ELSE IF Pass.PassBy = "ConstRef" THEN " by const reference"
                 ELSE " by value")
             \o (IF has_value(Arg.Name) THEN " as " \o Arg.Name[1] ELSE "")
             \o (IF Pass.Converted
                 THEN " (converted to " \o Arg.Type.Type \o ")" ELSE ""))
      ELSE <<>>

\* How the argument under the cursor is passed to the callee.
presentPassed(H) ==
  LET Arg == H.CalleeArgInfo[1]
      Pass == H.CallPassType[1]
  IN  IF has_value(H.CalleeArgInfo)
      THEN paragraph("Passed",
             "Passed"
             \o (IF Pass.PassBy = "Ref" THEN " by reference"
                 ELSE IF Pass.PassBy = "ConstRef" THEN " by const reference"
                 ELSE "")
             \o (IF has_value(Arg.Name) THEN " as " \o Arg.Name[1]
                 ELSE IF Pass.PassBy = "Value" THEN " by value"
                 ELSE "")
             \o (IF Pass.Converted
                 THEN " (converted to " \o Arg.Type.Type \o ")" ELSE ""))
      ELSE <<>>

\* Documentation comments and rendered documents are sequences of
\* characters; toStr gives the string of one.
RECURSIVE toStr(_)
toStr(s) == IF s = <<>> THEN "" ELSE Head(s) \o toStr(Tail(s))

isSpace(c) == c \in {" ", "\t", "\n"}

RECURSIVE ltrim(_)
ltrim(s) == IF s # <<>> /\ isSpace(Head(s)) THEN ltrim(Tail(s)) ELSE s

RECURSIVE rtrim(_)
rtrim(s) ==
  IF s # <<>> /\ isSpace(s[Len(s)]) THEN rtrim(SubSeq(s, 1, Len(s) - 1)) ELSE s

\* ltrim(" \t"): the newline stays.
RECURSIVE ltrimBlanks(_)
ltrimBlanks(s) ==
  IF s # <<>> /\ Head(s) \in {" ", "\t"} THEN ltrimBlanks(Tail(s)) ELSE s

\* StringRef::split('\n'): the text before the first newline and the text
\* after it.
split(s) ==
  LET at == {i \in 1..Len(s) : s[i] = "\n"}
      first == CHOOSE i \in at : \A j \in at : i <= j
  IN  IF at = {} THEN [Line |-> s, Rest |-> <<>>]
      ELSE [Line |-> SubSeq(s, 1, first - 1), Rest |-> SubSeq(s, first + 1, Len(s))]

\* The words of a text, and the text with single spaces between its words.
RECURSIVE splitWords(_, _)
splitWords(s, word) ==
  IF s = <<>> THEN (IF word = <<>> THEN <<>> ELSE <<word>>)
  ELSE IF isSpace(Head(s))
       THEN (IF word = <<>> THEN <<>> ELSE <<word>>) \o splitWords(Tail(s), <<>>)
  ELSE splitWords(Tail(s), Append(word, Head(s)))

RECURSIVE joinWith(_, _)
joinWith(parts, sep) ==
  IF parts = <<>> THEN <<>>
  ELSE IF Len(parts) = 1 THEN parts[1]
  ELSE parts[1] \o sep \o joinWith(Tail(parts), sep)

canonicalizeSpaces(s) == joinWith(splitWords(s, <<>>), <<" ">>)

\* A blank line follows.
isParagraphBreak(Rest) ==
  LET r == ltrimBlanks(Rest) IN r # <<>> /\ Head(r) = "\n"

punctuationIndicatesLineBreak(Line) ==
  LET l == rtrim(Line) IN l # <<>> /\ l[Len(l)] = "."

isHardLineBreakIndicator(Rest) ==
  LET r == ltrimBlanks(Rest) IN r # <<>> /\ Head(r) = "*"

isHardLineBreakAfterPunctuationOnly(Line, Rest) ==
  punctuationIndicatesLineBreak(Line)

isHardLineBreakAfter(Line, Rest) ==
  punctuationIndicatesLineBreak(Line) \/ isHardLineBreakIndicator(Rest)

\* The lines of a paragraph are its chunks, a space between two of them.
FlushParagraph(Output, ParagraphLines) ==
  IF ParagraphLines = <<>> THEN Output
  ELSE Append(Output,
         joinWith([i \in 1..Len(ParagraphLines) |->
                     canonicalizeSpaces(ParagraphLines[i])], <<" ">>))

RECURSIVE parseDocumentationFrom(_, _, _)
parseDocumentationFrom(Input, ParagraphLines, Output) ==
  LET Line == ltrim(split(Input).Line)
      Rest == split(Input).Rest
      Lines == IF Line # <<>> THEN Append(ParagraphLines, Line) ELSE ParagraphLines
  IN  IF split(Input).Line = <<>> /\ Rest = <<>>
      THEN FlushParagraph(Output, ParagraphLines)
      ELSE IF isParagraphBreak(Rest) \/ isHardLineBreakAfter(Line, Rest)
      THEN parseDocumentationFrom(Rest, <<>>, FlushParagraph(Output, Lines))
      ELSE parseDocumentationFrom(Rest, Lines, Output)

\* The paragraphs of a documentation comment.
parseDocumentation(Input) == parseDocumentationFrom(Input, <<>>, <<>>)

\* Markdown: an asterisk would start a list or an emphasis and is escaped.
RECURSIVE renderText(_)
renderText(s) ==
  IF s = <<>> THEN <<>>
  ELSE (IF Head(s) = "*" THEN <<"\\", Head(s)>> ELSE <<Head(s)>>)
       \o renderText(Tail(s))

\* A paragraph is one line of either rendering.
asPlainText(doc) == joinWith(doc, <<"\n">>)
asMarkdown(doc) ==
  joinWith([i \in 1..Len(doc) |-> renderText(doc[i])], <<" ", " ", "\n">>)

presentDocumentation(H) ==
  LET doc == parseDocumentation(H.Documentation)
  IN  [i \in 1..Len(doc) |->
         [para |-> "Documentation", text |-> toStr(doc[i]), chars |-> doc[i]]]

\* The number of used symbols a hover on an include lists by name.
SymbolNamesLimit == 5

take_front(s, n) == SubSeq(s, 1, IF Len(s) < n THEN Len(s) ELSE n)

RECURSIVE interleave(_, _)
interleave(names, sep) ==
  IF names = <<>> THEN ""
  ELSE IF Len(names) = 1 THEN names[1]
  ELSE names[1] \o sep \o interleave(Tail(names), sep)

presentUsedSymbolsOffByOne(H) ==
  LET Front == take_front(H.UsedSymbolNames, SymbolNamesLimit)
  IN  IF H.UsedSymbolNames # <<>>
      THEN paragraph("provides",
             "provides " \o interleave(Front, ", ")
             \o (IF Len(H.UsedSymbolNames) >= Len(Front)
                 THEN " and " \o ToString(Len(H.UsedSymbolNames) - Len(Front))
                      \o " more"
                 ELSE ""))
      ELSE <<>>

\* The symbols an included header provides to the including file.
presentUsedSymbols(H) ==
  LET Front == take_front(H.UsedSymbolNames, SymbolNamesLimit)
  IN  IF H.UsedSymbolNames # <<>>
      THEN paragraph("provides",
             "provides " \o interleave(Front, ", ")
             \o (IF Len(H.UsedSymbolNames) > Len(Front)
                 THEN " and " \o ToString(Len(H.UsedSymbolNames) - Len(Front))
                      \o " more"
                 ELSE ""))
      ELSE <<>>

present(H) ==
  presentValue(H) \o presentOffset(H) \o presentSize(H) \o presentPassed(H)
  \o presentDocumentation(H) \o presentUsedSymbols(H)

\* Evaluated integer constants: 64 bits, as 16 nibbles.
BitWidth == 64
Nibbles == BitWidth \div 4

hexDigit(n) ==
  <<"0", "1", "2", "3", "4", "5", "6", "7",
    "8", "9", "a", "b", "c", "d", "e", "f">>[n + 1]

isZero(n) == \A i \in 1..Len(n) : n[i] = 0
isNegative(V) == V[1] >= 8

\* Division of a nibble sequence by ten: the quotient and the remainder.
RECURSIVE udiv10(_, _)
udiv10(n, r) ==
  IF n = <<>> THEN <<>>
  ELSE <<(r * 16 + Head(n)) \div 10>> \o udiv10(Tail(n), (r * 16 + Head(n)) % 10)

RECURSIVE urem10(_, _)
urem10(n, r) == IF n = <<>> THEN r ELSE urem10(Tail(n), (r * 16 + Head(n)) % 10)

RECURSIVE toStringUnsigned(_)
toStringUnsigned(n) ==
  IF isZero(n) THEN ""
  ELSE toStringUnsigned(udiv10(n, 0)) \o ToString(urem10(n, 0))

\* Two's complement negation: invert every bit, then add one.
RECURSIVE increment(_)
increment(n) ==
  IF n = <<>> THEN <<>>
  ELSE IF n[Len(n)] = 15 THEN increment(SubSeq(n, 1, Len(n) - 1)) \o <<0>>
  ELSE SubSeq(n, 1, Len(n) - 1) \o <<n[Len(n)] + 1>>

negate(n) == increment([i \in 1..Len(n) |-> 15 - n[i]])

\* The value in decimal, with its sign.
getAsString(V) ==
  IF isZero(V) THEN "0"
  ELSE IF isNegative(V) THEN "-" \o toStringUnsigned(negate(V))
  ELSE toStringUnsigned(V)

\* The number of leading zero bits of a digit, and of a digit sequence.
countl_zero4(d) ==
  IF d = 0 THEN 4 ELSE IF d = 1 THEN 3 ELSE IF d < 4 THEN 2 ELSE IF d < 8 THEN 1 ELSE 0

RECURSIVE countl_zero(_)
countl_zero(n) ==
  IF n = <<>> THEN 0
  ELSE IF Head(n) = 0 THEN 4 + countl_zero(Tail(n))
  ELSE countl_zero4(Head(n))

countl_one(n) == countl_zero([i \in 1..Len(n) |-> 15 - n[i]])

\* The number of leading bits equal to the sign bit.
getNumSignBits(V) == IF isNegative(V) THEN countl_one(V) ELSE countl_zero(V)

getSignificantBits(V) == 4 * Len(V) - getNumSignBits(V) + 1

\* Unsigned comparison with ten.
uge10(V) == (\E i \in 1..Len(V) - 1 : V[i] # 0) \/ V[Len(V)] >= 10

RECURSIVE hexstr(_)
hexstr(n) == IF n = <<>> THEN "" ELSE hexDigit(Head(n)) \o hexstr(Tail(n))

\* The digits without leading zeros.
RECURSIVE utohexstr(_)
utohexstr(n) ==
  IF Len(n) > 1 /\ Head(n) = 0 THEN utohexstr(Tail(n)) ELSE hexstr(n)

\* "0x" and the digits in lower case, without leading zeros.
format_hex(n) == "0x" \o utohexstr(n)

printHex64(V) == format_hex(V)

\* Negative values that fit in 32 bits are shown as 32 bits.
printHex(V) ==
  IF isNegative(V) /\ getSignificantBits(V) <= 32
  THEN format_hex(SubSeq(V, Len(V) - 7, Len(V)))
  ELSE format_hex(V)

\* The hexadecimal value is shown for integers of 10 and more, and negative ones.
printExprValue(V) ==
  IF getSignificantBits(V) <= 64 /\ uge10(V)
  THEN getAsString(V) \o " (" \o printHex(V) \o ")"
  ELSE getAsString(V)

-----------------------------------------------------------------------------
(* The IR *)

Op(k, p, a, t, at, n, c, nm) ==
  [kind |-> k, parent |-> p, args |-> a, types |-> t, attrs |-> at,
   attrNames |-> n, const |-> c, name |-> nm]

Ids == 1..Len(ops)

kindOf(op) == ops[op].kind

\* Variant: isa<ResultOp>(op).
isResultOpOnly(op) == kindOf(op) = "result"

\* isa<ResultOp, ResultsOp>(op)
isResultOp(op) == kindOf(op) \in {"result", "results"}

\* Every SSA value an operation consumes, whatever its operand group.
operandsOf(op) == Range(ops[op].args) \cup Range(ops[op].types) \cup Range(ops[op].attrs)

\* op->getUsers(), as a set.
getUsers(op) == {user \in Ids : op \in operandsOf(user)}

\* op->getUsers() in use-list order (the most recently created use first).
RECURSIVE usersFrom(_, _)
usersFrom(op, j) ==
  IF j = 0 THEN <<>>
  ELSE IF op \in operandsOf(j) THEN <<j>> \o usersFrom(op, j - 1)
  ELSE usersFrom(op, j - 1)

getUsersSeq(op) == usersFrom(op, Len(ops))

\* The operations of the pattern's body block, in block order.
RECURSIVE bodyFrom(_)
bodyFrom(j) ==
  IF j > Len(ops) THEN <<>>
  ELSE IF ops[j].parent = "pattern" THEN <<j>> \o bodyFrom(j + 1)
  ELSE bodyFrom(j + 1)

bodyFront == bodyFrom(1)

\* body.front().getTerminator()
getTerminator == bodyFront[Len(bodyFront)]

-----------------------------------------------------------------------------
(* Diagnostics.  The messages are those of the source, with the source's *)
(* backquotes written as apostrophes.                                     *)

ErrBindableUser == "expected a bindable user when defined in the matcher body of a 'pdl.pattern'"
ErrConstantValue == "expected constant value when specified within a 'pdl.rewrite'"
ErrTypeAndValue == "expected only one of ['type', 'value'] to be set"
ErrNoOpName == "must have an operation name when nested within a 'pdl.rewrite'"
ErrAttrCount == "expected the same number of attribute values and attribute names"
ErrNotInferable == "must have inferable or constrained result types when nested within 'pdl.rewrite'"
ErrTerminator == "expected body to terminate with 'pdl.rewrite'"
ErrNonPDL == "expected only 'pdl' operations within the pattern body"
ErrNoOperation == "the pattern must contain at least one 'pdl.operation'"
ErrConnected == "the operations must form a connected component"

NoteTerminator == "see terminator defined here"
NoteNonPDL == "see non-'pdl' operation defined here"
NoteNoInterface == "operation is created in a non-inferrable context, but the operation does not implement InferTypeOpInterface"
NoteNotConstrained == "result type # was not constrained"
NoteDisconnected == "see a disconnected value / operation here"

\* A diagnostic: the message, the attached note and what the note points at
\* (an operation id, or the index of a result type).
success == [msg |-> "success", note |-> "", at |-> 0]
emitOpError(m) == [msg |-> m, note |-> "", at |-> 0]
attachNote(m, n, a) == [msg |-> m, note |-> n, at |-> a]
succeeded(r) == r.msg = "success"
failed(r) == r.msg # "success"

-----------------------------------------------------------------------------
\* Binding use

\* Variant: any user binds, a pdl.result included.
hasBindingUseAnyUser(op) == getUsers(op) # {}

\* Returns true if the given operation is used by a "binding" pdl operation.
RECURSIVE hasBindingUse(_)
hasBindingUse(op) ==
  \E user \in getUsers(op) : ~isResultOp(user) \/ hasBindingUse(user)

verifyHasBindingUse(op) ==
  IF ops[op].parent # "pattern" THEN success
  ELSE IF hasBindingUse(op) THEN success
  ELSE emitOpError(ErrBindableUser)

-----------------------------------------------------------------------------
\* Connected component search

\* Variant: the search follows the operands but never the users.
visitOperandsOnly(op, visited) ==
  IF ops[op].parent # "pattern" \/ kindOf(op) = "rewrite" THEN visited
  ELSE visited \cup {op} \cup
       (IF kindOf(op) = "operation" THEN Range(ops[op].args)
        ELSE IF isResultOp(op) THEN {ops[op].args[1]}
        ELSE {})

RECURSIVE visit(_, _), visitEach(_, _)
visit(op, visited) ==
  IF ops[op].parent # "pattern" \/ kindOf(op) = "rewrite" THEN visited
  ELSE IF op \in visited THEN visited
  ELSE LET marked == visited \cup {op}
           viaOperands ==
             CASE kindOf(op) = "operation" -> visitEach(ops[op].args, marked)
               [] isResultOp(op) -> visit(ops[op].args[1], marked)
               [] OTHER -> marked
       IN visitEach(getUsersSeq(op), viaOperands)
visitEach(s, visited) ==
  IF s = <<>> THEN visited ELSE visitEach(Tail(s), visit(Head(s), visited))

-----------------------------------------------------------------------------
\* Operation names.  The name attribute of a pdl.operation is one of:
\*   "none"          no name
\*   "unregistered"  a name that is not a registered operation
\*   "infer"         registered, implements InferTypeOpInterface
\*   "zero"          registered, no interface, trait ZeroResults
\*   "variadic"      registered, no interface, trait VariadicResults
\*   "one"           registered, no interface, neither trait
OpNames == {"none", "unregistered", "infer", "zero", "variadic", "one"}

getOpName(op) == ops[op].name # "none"
isRegistered(op) == ops[op].name \in {"infer", "zero", "variadic", "one"}
hasInferTypeOpInterface(op) == ops[op].name = "infer"
hasZeroResults(op) == ops[op].name = "zero"
\* Variant: the VariadicResults trait is never seen.
noVariadicResults(op) == FALSE

hasVariadicResults(op) == ops[op].name = "variadic"

\* OperationName::mightHaveInterface: unregistered, or registered with it.
mightHaveTypeInference(op) ==
  getOpName(op) /\ (IF isRegistered(op) THEN hasInferTypeOpInterface(op) ELSE TRUE)

-----------------------------------------------------------------------------
\* Result type inference of a pdl.operation

\* The uses of the value of op: <<user, operand number>>, operand numbers
\* counted from 0 as in the source.
getUses(op) ==
  UNION {{<<user, n - 1>> : n \in {m \in DOMAIN ops[user].args : ops[user].args[m] = op}} :
         user \in Ids}

\* Variant: the replaced operation may be created after the operation.
canInferTypeFromAnyReplace(op, use) ==
  kindOf(use[1]) = "replace" /\ use[2] # 0

canInferTypeFromUse(op, use) ==
  IF kindOf(use[1]) # "replace" \/ use[2] = 0 THEN FALSE
  ELSE LET replacedOp == ops[use[1]].args[1]
       IN ops[replacedOp].parent # ops[op].parent \/ replacedOp < op

\* Variant: a user inside the rewrite block constrains the type as well.
constrainsInputAnyBlock(op, user) ==
  kindOf(user) \in {"operand", "operands", "operation"}

constrainsInput(op, user) ==
  ops[user].parent # ops[op].parent /\ kindOf(user) \in {"operand", "operands", "operation"}

\* Whether result type number i (from 1) of op passes the loop body.
resultTypeIsConstrained(op, i) ==
  LET resultTypeOp == ops[op].types[i]
  IN \/ kindOf(resultTypeOp) = "apply_native_rewrite"
     \/ /\ kindOf(resultTypeOp) \in {"type", "types"}
        /\ \/ ops[resultTypeOp].const
           \/ \E user \in getUsers(resultTypeOp) : constrainsInput(op, user)

RECURSIVE checkResultTypes(_, _)
checkResultTypes(op, i) ==
  IF i > Len(ops[op].types) THEN success
  ELSE IF resultTypeIsConstrained(op, i) THEN checkResultTypes(op, i + 1)
  ELSE attachNote(ErrNotInferable, NoteNotConstrained, i - 1)

verifyResultTypesAreInferrable(op) ==
  IF \E use \in getUses(op) : canInferTypeFromUse(op, use) THEN success
  ELSE IF ops[op].types = <<>>
    THEN IF ~getOpName(op) THEN success
         ELSE IF ~isRegistered(op) THEN success
         ELSE IF ~hasZeroResults(op) /\ ~hasVariadicResults(op)
           THEN attachNote(ErrNotInferable, NoteNoInterface, op)
         ELSE success
  ELSE checkResultTypes(op, 1)

-----------------------------------------------------------------------------
\* verify() of the operations

\* If the operation is within a rewrite body and doesn't have type inference,
\* ensure that the result types can be resolved.
resultTypesCheck(op) ==
  IF ops[op].parent = "rewrite" /\ ~mightHaveTypeInference(op)
    THEN verifyResultTypesAreInferrable(op)
  ELSE success

OperationOpVerify(op) ==
  LET isWithinRewrite == ops[op].parent = "rewrite"
  IN IF isWithinRewrite /\ ~getOpName(op) THEN emitOpError(ErrNoOpName)
     ELSE IF ops[op].attrNames # Len(ops[op].attrs) THEN emitOpError(ErrAttrCount)
     ELSE IF failed(resultTypesCheck(op)) THEN resultTypesCheck(op)
     ELSE verifyHasBindingUse(op)

AttributeOpVerify(op) ==
  IF ~ops[op].const
    THEN IF ops[op].parent = "rewrite" THEN emitOpError(ErrConstantValue)
         ELSE verifyHasBindingUse(op)
  ELSE IF ops[op].types # <<>> THEN emitOpError(ErrTypeAndValue)
  ELSE success

OperandOpVerify(op) == verifyHasBindingUse(op)

TypeOpVerify(op) == IF ~ops[op].const THEN verifyHasBindingUse(op) ELSE success

\* The kinds whose verify() is modelled.
VerifiedKinds == {"operand", "operands", "operation", "attribute", "type", "types"}

verify(op) ==
  CASE kindOf(op) \in {"operand", "operands"} -> OperandOpVerify(op)
    [] kindOf(op) = "operation" -> OperationOpVerify(op)
    [] kindOf(op) = "attribute" -> AttributeOpVerify(op)
    [] kindOf(op) \in {"type", "types"} -> TypeOpVerify(op)
    [] OTHER -> success

-----------------------------------------------------------------------------
\* PatternOp::verifyRegions

\* Variant: the walk does not enter the region of the pdl.rewrite.
RECURSIVE walkBodyOnly(_)
walkBodyOnly(j) ==
  IF j > Len(ops) THEN <<>>
  ELSE IF ops[j].parent = "pattern" /\ j # getTerminator
    THEN <<j>> \o walkBodyOnly(j + 1)
  ELSE walkBodyOnly(j + 1)

\* body.walk: the operations nested in the body, those of the rewrite region
\* before the pdl.rewrite itself.
RECURSIVE walkFrom(_)
walkFrom(j) ==
  IF j > Len(ops) THEN <<>>
  ELSE IF ops[j].parent \in {"pattern", "rewrite"} /\ j # getTerminator
    THEN <<j>> \o walkFrom(j + 1)
  ELSE walkFrom(j + 1)

walkOrder == walkFrom(1) \o <<getTerminator>>

RECURSIVE walkCheck(_)
walkCheck(s) ==
  IF s = <<>> THEN success
  ELSE IF kindOf(Head(s)) = "foreign" THEN attachNote(ErrNonPDL, NoteNonPDL, Head(s))
  ELSE walkCheck(Tail(s))

isComponentOp(op) == kindOf(op) \in {"operand", "operands", "result", "results", "operation"}

\* Variant: any user counts.
hasAnyUser(op) == getUsers(op) # {}

hasUserInRewrite(op) ==
  \E user \in getUsers(op) : kindOf(user) = "rewrite" \/ ops[user].parent = "rewrite"

RECURSIVE componentLoop(_, _, _)
componentLoop(rest, first, visited) ==
  IF rest = <<>> THEN success
  ELSE LET op == Head(rest)
       IN IF ~isComponentOp(op) THEN componentLoop(Tail(rest), first, visited)
          ELSE IF ~hasUserInRewrite(op) THEN componentLoop(Tail(rest), first, visited)
          ELSE IF first THEN componentLoop(Tail(rest), FALSE, visit(op, visited))
          ELSE IF op \notin visited THEN attachNote(ErrConnected, NoteDisconnected, op)
          ELSE componentLoop(Tail(rest), first, visited)

PatternOpVerifyRegions ==
  IF kindOf(getTerminator) # "rewrite"
    THEN attachNote(ErrTerminator, NoteTerminator, getTerminator)
  ELSE IF failed(walkCheck(walkOrder)) THEN walkCheck(walkOrder)
  ELSE IF \A op \in Range(bodyFront) : kindOf(op) # "operation"
    THEN emitOpError(ErrNoOperation)
  ELSE componentLoop(bodyFront, TRUE, {})

-----------------------------------------------------------------------------
\* Building the pattern.  The matcher body is built first (pc = "matcher"),
\* then the terminator of the body, then the block of the pdl.rewrite
\* (pc = "rewriter").

notVerified == [msg |-> "not verified", note |-> "", at |-> 0]

PdlInit ==
  /\ ops = <<>>
  /\ pc = "matcher"
  /\ opDiag = <<>>
  /\ patDiag = notVerified
  /\ Constant = nullopt
  /\ HI = DefaultHoverInfo
  /\ rendered = nullopt
  /\ executor = NoExecution
  /\ Records = <<>>
  /\ parsed = 0
  /\ selection = nullopt

\* The block new operations are inserted into.
insertionBlock == IF pc = "matcher" THEN "pattern" ELSE "rewrite"

canCreate ==
  /\ pc \in {"matcher", "rewriter"}
  /\ pc = "rewriter" => kindOf(getTerminator) = "rewrite"

\* The operations whose results the insertion point can use.
visible ==
  {i \in Ids : /\ ops[i].parent \in {"pattern", "rewrite"}
               /\ kindOf(i) \notin {"rewrite", "foreign", "replace"}}

ValueDefs == {i \in visible : kindOf(i) \in {"operand", "operands", "result", "results",
                                             "apply_native_constraint", "apply_native_rewrite"}}
TypeDefs == {i \in visible : kindOf(i) \in {"type", "types",
                                            "apply_native_constraint", "apply_native_rewrite"}}
AttrDefs == {i \in visible : kindOf(i) = "attribute"}
OperationDefs == {i \in visible : kindOf(i) = "operation"}
AnyDefs == ValueDefs \cup TypeDefs \cup AttrDefs \cup OperationDefs

insert(op) ==
  /\ ops' = Append(ops, op)
  /\ UNCHANGED <<opDiag, patDiag, Constant, HI, rendered, executor, Records, parsed, selection>>

\* pdl.operand / pdl.operands, with an optional type constraint.
CreateOperandOp(k) ==
  /\ canCreate /\ pc = "matcher"
  /\ \E t \in SeqsUpTo(TypeDefs, 1) :
       insert(Op(k, insertionBlock, <<>>, t, <<>>, 0, FALSE, "none"))
  /\ UNCHANGED pc

\* pdl.type / pdl.types, with or without constant type(s).
CreateTypeOp(k) ==
  /\ canCreate
  /\ \E c \in BOOLEAN :
       insert(Op(k, insertionBlock, <<>>, <<>>, <<>>, 0, c, "none"))
  /\ UNCHANGED pc

\* pdl.attribute, with or without a value and with or without a type.
CreateAttributeOp ==
  /\ canCreate
  /\ \E c \in BOOLEAN, t \in SeqsUpTo(TypeDefs, 1) :
       insert(Op("attribute", insertionBlock, <<>>, t, <<>>, 0, c, "none"))
  /\ UNCHANGED pc

\* pdl.operation with a name out of 'names', up to nArgs operands, up to
\* nTypes result types and up to nAttrs attribute values and attribute names.
CreateOperationOp(names, nArgs, nTypes, nAttrs) ==
  /\ canCreate
  /\ \E nm \in names, a \in SeqsUpTo(ValueDefs, nArgs),
        t \in SeqsUpTo(TypeDefs, nTypes), at \in SeqsUpTo(AttrDefs, nAttrs),
        n \in 0..nAttrs :
       insert(Op("operation", insertionBlock, a, t, at, n, FALSE, nm))
  /\ UNCHANGED pc

\* pdl.result / pdl.results of an operation.
CreateResultOp(k) ==
  /\ canCreate
  /\ \E parent \in OperationDefs :
       insert(Op(k, insertionBlock, <<parent>>, <<>>, <<>>, 0, FALSE, "none"))
  /\ UNCHANGED pc

\* pdl.apply_native_constraint over values of the matcher.
CreateApplyNativeConstraintOp(nArgs) ==
  /\ canCreate /\ pc = "matcher"
  /\ \E a \in SeqsUpTo(AnyDefs, nArgs) \ {<<>>} :
       insert(Op("apply_native_constraint", insertionBlock, a, <<>>, <<>>, 0, FALSE, "none"))
  /\ UNCHANGED pc

\* pdl.apply_native_rewrite in the rewrite block.
CreateApplyNativeRewriteOp(nArgs) ==
  /\ canCreate /\ pc = "rewriter"
  /\ \E a \in SeqsUpTo(AnyDefs, nArgs) :
       insert(Op("apply_native_rewrite", insertionBlock, a, <<>>, <<>>, 0, FALSE, "none"))
  /\ UNCHANGED pc

\* pdl.replace %op with either an operation or a list of values.
CreateReplaceOp ==
  /\ canCreate /\ pc = "rewriter"
  /\ \E o \in OperationDefs,
        r \in SeqsUpTo(OperationDefs, 1) \cup SeqsUpTo(ValueDefs, MaxOperands) :
       insert(Op("replace", insertionBlock, <<o>> \o r, <<>>, <<>>, 0, FALSE, "none"))
  /\ UNCHANGED pc

\* An operation of another dialect.
CreateForeignOp ==
  /\ canCreate
  /\ insert(Op("foreign", insertionBlock, <<>>, <<>>, <<>>, 0, FALSE, "none"))
  /\ UNCHANGED pc

\* An operation outside of any pattern: in some other operation, or detached.
CreateOutsideOp(k) ==
  /\ canCreate /\ pc = "matcher"
  /\ \E where \in {"other", "none"}, c \in BOOLEAN :
       /\ c => k \in {"type", "types", "attribute"}
       /\ insert(Op(k, where, <<>>, <<>>, <<>>, 0, c, "none"))
  /\ UNCHANGED pc

\* The terminator of the body: pdl.rewrite with its root and external
\* arguments, each value of the matcher passed at most once.
CreateRewriteOp(nArgs) ==
  /\ pc = "matcher"
  /\ \E a \in IncSeqsUpTo(AnyDefs, nArgs) :
       insert(Op("rewrite", "pattern", a, <<>>, <<>>, 0, FALSE, "none"))
  /\ pc' = "rewriter"

\* The body ends with a terminator of another dialect.
CreateForeignTerminator ==
  /\ pc = "matcher"
  /\ insert(Op("foreign", "pattern", <<>>, <<>>, <<>>, 0, FALSE, "none"))
  /\ pc' = "rewriter"

\* The verifier runs verify() on every operation ...
VerifyOperations ==
  /\ pc = "rewriter"
  /\ opDiag' = [op \in Ids |-> verify(op)]
  /\ pc' = "ops_verified"
  /\ UNCHANGED <<ops, patDiag, Constant, HI, rendered, executor, Records, parsed, selection>>

\* ... and then PatternOp::verifyRegions on the pattern.
VerifyPattern ==
  /\ pc = "ops_verified"
  /\ patDiag' = PatternOpVerifyRegions
  /\ pc' = "done"
  /\ UNCHANGED <<ops, opDiag, Constant, HI, rendered, executor, Records, parsed, selection>>

room(n) == Len(ops) < n

\* Binding uses: every kind of the matcher, a rewrite, types in the rewrite.
BindNext ==
  \/ room(MaxBindOps) /\ \E k \in {"operand", "operands"} : CreateOperandOp(k)
  \/ room(MaxBindOps) /\ \E k \in {"type", "types"} : CreateTypeOp(k)
  \/ room(MaxBindOps) /\ CreateAttributeOp
  \/ room(MaxBindOps) /\ CreateOperationOp({"unregistered"}, MaxOperands, 0, MaxAttrs)
  \/ room(MaxBindOps) /\ \E k \in {"result", "results"} : CreateResultOp(k)
  \/ room(MaxBindOps) /\ CreateApplyNativeConstraintOp(MaxOperands)
  \/ room(MaxBindOps) /\ \E k \in VerifiedKinds : CreateOutsideOp(k)
  \/ room(MaxBindOps) /\ CreateRewriteOp(MaxOperands + 1)
  \/ VerifyOperations
  \/ VerifyPattern

BindSpec == PdlInit /\ [][BindNext]_vars

\* Connected components: operands, operations, results and constraints.
ConnNext ==
  \/ room(MaxConnOps) /\ CreateOperandOp("operand")
  \/ room(MaxConnOps) /\ CreateOperationOp({"unregistered"}, MaxOperands, 0, 0)
  \/ room(MaxConnOps) /\ CreateResultOp("result")
  \/ room(MaxConnOps) /\ CreateApplyNativeConstraintOp(MaxOperands)
  \/ room(MaxConnOps) /\ CreateApplyNativeRewriteOp(MaxOperands)
  \/ room(MaxConnOps) /\ CreateRewriteOp(MaxOperands + 1)
  \/ VerifyOperations
  \/ VerifyPattern

ConnSpec == PdlInit /\ [][ConnNext]_vars

\* Result type inference of the operations created in the rewrite.
InferNext ==
  \/ room(MaxInferOps) /\ pc = "matcher" /\ CreateOperandOp("operand")
  \/ room(MaxInferOps) /\ pc = "matcher" /\ CreateOperationOp({"unregistered"}, 0, MaxOperands, 0)
  \/ room(MaxInferOps) /\ pc = "matcher" /\ CreateApplyNativeConstraintOp(MaxOperands)
  \/ room(MaxInferOps) /\ pc = "matcher" /\ \E k \in {"type", "types"} : CreateTypeOp(k)
  \/ room(MaxInferOps) /\ pc = "rewriter" /\ CreateTypeOp("type")
  \/ room(MaxInferOps) /\ pc = "rewriter" /\ CreateOperationOp(OpNames, 0, 0, 0)
  \/ room(MaxInferOps) /\ pc = "rewriter" /\ CreateOperationOp({"one"}, 0, MaxResultTypes, 0)
  \/ room(MaxInferOps) /\ pc = "rewriter" /\ CreateApplyNativeRewriteOp(0)
  \/ room(MaxInferOps) /\ pc = "rewriter" /\ CreateReplaceOp
  \/ room(MaxInferOps) /\ CreateRewriteOp(0)
  \/ VerifyOperations
  \/ VerifyPattern

InferSpec == PdlInit /\ [][InferNext]_vars

\* Inference of result types from the uses in pdl.replace.
ReplaceNext ==
  \/ room(MaxReplaceOps) /\ CreateTypeOp("type")
  \/ room(MaxReplaceOps) /\ CreateOperationOp({"one", "zero"}, 0, MaxOperands, 0)
  \/ room(MaxReplaceOps) /\ CreateReplaceOp
  \/ room(MaxReplaceOps) /\ CreateRewriteOp(0)
  \/ VerifyOperations
  \/ VerifyPattern

ReplaceSpec == PdlInit /\ [][ReplaceNext]_vars

\* The structure of the pattern body.
PatternNext ==
  \/ room(MaxPatternOps) /\ CreateOperandOp("operand")
  \/ room(MaxPatternOps) /\ CreateTypeOp("type")
  \/ room(MaxPatternOps) /\ CreateOperationOp({"unregistered"}, MaxOperands, 0, 0)
  \/ room(MaxPatternOps) /\ CreateForeignOp
  \/ room(MaxPatternOps) /\ CreateRewriteOp(MaxOperands + 1)
  \/ room(MaxPatternOps) /\ CreateForeignTerminator
  \/ VerifyOperations
  \/ VerifyPattern

PatternSpec == PdlInit /\ [][PatternNext]_vars

\* The order of the body.  The same pattern written with two neighbouring
\* operations of the body exchanged, the second of which does not use the
\* first, and verified again: every reference to one of the two is a
\* reference to its new place.  Every order of the body that respects
\* dominance is reached by such exchanges.
swapped(i, op) == IF op = i THEN i + 1 ELSE IF op = i + 1 THEN i ELSE op

RECURSIVE swappedIn(_, _)
swappedIn(i, s) ==
  IF s = <<>> THEN <<>> ELSE <<swapped(i, Head(s))>> \o swappedIn(i, Tail(s))

RECURSIVE reordered(_, _)
reordered(i, s) ==
  IF s = <<>> THEN <<>>
  ELSE <<[Head(s) EXCEPT !.args = swappedIn(i, @), !.types = swappedIn(i, @),
                         !.attrs = swappedIn(i, @)]>>
       \o reordered(i, Tail(s))

exchangeable(i) ==
  /\ i \in Ids /\ i + 1 \in Ids
  /\ ops[i].parent = "pattern" /\ ops[i + 1].parent = "pattern"
  /\ i + 1 # getTerminator
  /\ i \notin operandsOf(i + 1)

Reorder ==
  /\ pc = "done"
  /\ \E i \in Ids :
       /\ exchangeable(i)
       /\ ops' = SubSeq(ops, 1, i - 1) \o <<ops[i + 1], ops[i]>>
                 \o reordered(i, SubSeq(ops, i + 2, Len(ops)))
  /\ opDiag' = [op \in Ids |-> verify(op)]'
  /\ patDiag' = PatternOpVerifyRegions'
  /\ UNCHANGED <<pc, Constant, HI, rendered, executor, Records, parsed, selection>>

\* The order of the body: operands, constraints and operations of the
\* matcher, and a rewrite without operations of its own.
OrderNext ==
  \/ room(MaxOrderOps) /\ CreateOperandOp("operand")
  \/ room(MaxOrderOps) /\ CreateOperationOp({"unregistered"}, MaxOperands, 0, 0) /\ pc = "matcher"
  \/ room(MaxOrderOps) /\ CreateApplyNativeConstraintOp(MaxOperands)
  \/ room(MaxOrderOps) /\ CreateRewriteOp(MaxOperands + 1)
  \/ VerifyOperations
  \/ VerifyPattern
  \/ Reorder

OrderSpec == PdlInit /\ [][OrderNext]_vars

-----------------------------------------------------------------------------
(* Hover requests.  Every request starts from a fresh HoverInfo; present() *)
(* renders it.                                                              *)

fresh == HI = DefaultHoverInfo /\ rendered = nullopt

\* The 64-bit constant made of a sign extension of a digits, MaxDigits free
\* digits and a run of equal digits below them.
constant64(a, free, fill, low) ==
  [i \in 1..a |-> fill] \o free \o [i \in 1..Nibbles - MaxDigits - a |-> low]

\* The hover tests' HoverInfo builders with the lines they expect for the
\* paragraphs modelled here.
PresentCases ==
  << [HI |-> [DefaultHoverInfo EXCEPT !.Size = <<80>>,
                !.Documentation = <<"d", "o", "c", "u", "m", "e", "n", "t", "a", "t", "i", "o", "n">>],
      ExpectedRender |-> <<"Size: 10 bytes", "documentation">>],
     [HI |-> [DefaultHoverInfo EXCEPT !.Value = <<"value">>, !.Size = <<32>>,
                !.Offset = <<96>>, !.Padding = <<32>>, !.Align = <<32>>],
      ExpectedRender |-> <<"Value = value", "Offset: 12 bytes",
                           "Size: 4 bytes (+4 bytes padding), alignment 4 bytes">>],
     [HI |-> [DefaultHoverInfo EXCEPT !.Value = <<"value">>, !.Size = <<25>>,
                !.Offset = <<35>>, !.Padding = <<4>>, !.Align = <<64>>],
      ExpectedRender |-> <<"Value = value", "Offset: 4 bytes and 3 bits",
                           "Size: 25 bits (+4 bits padding), alignment 8 bytes">>],
     [HI |-> [DefaultHoverInfo EXCEPT !.Value = <<"3">>,
                !.CalleeArgInfo =
                  <<Param(<<"arg_a">>, PrintedType("int", nullopt), <<"7">>)>>,
                !.CallPassType = <<PassType("Value", FALSE)>>],
      ExpectedRender |-> <<"Value = 3", "Passed as arg_a">>],
     [HI |-> [DefaultHoverInfo EXCEPT
                !.CalleeArgInfo =
                  <<Param(nullopt, PrintedType("int", nullopt), nullopt)>>,
                !.CallPassType = <<PassType("Value", FALSE)>>],
      ExpectedRender |-> <<"Passed by value">>],
     [HI |-> [DefaultHoverInfo EXCEPT !.Value = <<"3">>,
                !.CalleeArgInfo =
                  <<Param(<<"arg_a">>, PrintedType("int", nullopt), <<"7">>)>>,
                !.CallPassType = <<PassType("Ref", FALSE)>>],
      ExpectedRender |-> <<"Value = 3", "Passed by reference as arg_a">>],
     [HI |-> [DefaultHoverInfo EXCEPT !.Value = <<"3">>,
                !.CalleeArgInfo =
                  <<Param(<<"arg_a">>, PrintedType("alias_int", <<"int">>), <<"7">>)>>,
                !.CallPassType = <<PassType("Value", TRUE)>>],
      ExpectedRender |-> <<"Value = 3", "Passed as arg_a (converted to alias_int)">>],
     [HI |-> [DefaultHoverInfo EXCEPT !.Value = <<"3">>,
                !.CalleeArgInfo =
                  <<Param(<<"arg_a">>, PrintedType("int", nullopt), <<"7">>)>>,
                !.CallPassType = <<PassType("ConstRef", TRUE)>>],
      ExpectedRender |-> <<"Value = 3",
                           "Passed by const reference as arg_a (converted to int)">>],
     [HI |-> [DefaultHoverInfo EXCEPT !.UsedSymbolNames = <<"Foo", "Bar", "Bar">>],
      ExpectedRender |-> <<"provides Foo, Bar, Bar">>],
     [HI |-> [DefaultHoverInfo EXCEPT
                !.UsedSymbolNames = <<"Foo", "Bar", "Baz", "Foobar", "Qux", "Quux">>],
      ExpectedRender |-> <<"provides Foo, Bar, Baz, Foobar, Qux and 1 more">>] >>

\* The constants the hover tests evaluate, with the Value they expect.
ValueCases ==
  << [V |-> <<0,0,0,0, 0,0,0,0, 0,0,0,0, 0,0,0,3>>, Value |-> "3"],
     [V |-> <<0,0,0,0, 0,0,0,0, 0,0,0,0, 0,0,0,1>>, Value |-> "1"],
     [V |-> <<0,0,0,0, 0,0,0,0, 0,0,0,0, 0,0,0,0>>, Value |-> "0"],
     [V |-> <<0,0,0,0, 0,0,0,0, 0,0,0,0, 0,0,2,9>>, Value |-> "41 (0x29)"],
     [V |-> <<0,0,0,0, 0,0,0,0, 0,0,0,0, 0,0,2,10>>, Value |-> "42 (0x2a)"],
     [V |-> <<0,0,0,0, 0,0,0,0, 0,0,0,0, 0,0,0,10>>, Value |-> "10 (0xa)"],
     [V |-> <<15,15,15,15, 13,14,10,13, 11,14,14,15, 15,15,15,15>>,
      Value |-> "-36637162602497 (0xffffdeadbeefffff)"],
     [V |-> <<15,15,15,15, 15,15,15,15, 15,15,15,15, 15,15,15,12>>,
      Value |-> "-4 (0xfffffffc)"] >>

evaluate(V) ==
  /\ Constant' = <<V>>
  /\ HI' = [HI EXCEPT !.Value = <<printExprValue(V)>>]

\* A hover on an expression that evaluates to an integer constant.
HoverExpr ==
  /\ fresh
  /\ \/ \E a \in 0..Nibbles - MaxDigits, free \in [1..MaxDigits -> 0..15],
            fill \in {0, 15}, low \in {0, 15} :
            evaluate(constant64(a, free, fill, low))
     \/ \E i \in 1..Len(ValueCases) : evaluate(ValueCases[i].V)
  /\ UNCHANGED <<rendered, ops, pc, opDiag, patDiag, executor, Records, parsed, selection>>

\* A hover on a record or on a field of one.
HoverField ==
  /\ fresh
  /\ \E size \in Opt(0..MaxBits), offset \in Opt(0..MaxBits),
        padding \in Opt(1..MaxBits), align \in Opt({8, 64}) :
       HI' = [HI EXCEPT !.Size = size, !.Offset = offset,
                        !.Padding = padding, !.Align = align]
  /\ UNCHANGED <<Constant, rendered, ops, pc, opDiag, patDiag, executor, Records, parsed, selection>>

\* A hover on an argument of a call.
HoverArgument ==
  /\ fresh
  /\ \E name \in Opt({"arg_a", "arg_b"}), default \in Opt({"7"}),
        type \in {PrintedType("int", nullopt), PrintedType("alias_int", <<"int">>)},
        passBy \in PassModes, converted \in BOOLEAN :
       HI' = [HI EXCEPT !.CalleeArgInfo = <<Param(name, type, default)>>,
                        !.CallPassType = <<PassType(passBy, converted)>>]
  /\ UNCHANGED <<Constant, rendered, ops, pc, opDiag, patDiag, executor, Records, parsed, selection>>

\* A hover on an #include.
HoverInclude ==
  /\ fresh
  /\ \E names \in SeqsUpTo({"Foo", "Bar"}, MaxNames) :
       /\ names # <<>>
       /\ HI' = [HI EXCEPT !.UsedSymbolNames = names]
  /\ UNCHANGED <<Constant, rendered, ops, pc, opDiag, patDiag, executor, Records, parsed, selection>>

\* The documentation comments of the hover tests with their renderings.
ParseDocumentationCases ==
  << [Documentation |->
        <<" ", "\n", " ", "f", "o", "o", "\n", "b", "a", "r">>,
      ExpectedRenderMarkdown |-> "foo bar",
      ExpectedRenderPlainText |-> "foo bar"],
     [Documentation |->
        <<"f", "o", "o", "\n", "b", "a", "r", " ", "\n", " ", " ">>,
      ExpectedRenderMarkdown |-> "foo bar",
      ExpectedRenderPlainText |-> "foo bar"],
     [Documentation |->
        <<"f", "o", "o", " ", " ", "\n", "b", "a", "r">>,
      ExpectedRenderMarkdown |-> "foo bar",
      ExpectedRenderPlainText |-> "foo bar"],
     [Documentation |->
        <<"f", "o", "o", " ", " ", " ", " ", "\n", "b", "a", "r">>,
      ExpectedRenderMarkdown |-> "foo bar",
      ExpectedRenderPlainText |-> "foo bar"],
     [Documentation |->
        <<"f", "o", "o", "\n", "\n", "\n", "b", "a", "r">>,
      ExpectedRenderMarkdown |-> "foo  \nbar",
      ExpectedRenderPlainText |-> "foo\nbar"],
     [Documentation |->
        <<"f", "o", "o", "\n", "\n", "\n", "\t", "b", "a", "r">>,
      ExpectedRenderMarkdown |-> "foo  \nbar",
      ExpectedRenderPlainText |-> "foo\nbar"],
     [Documentation |->
        <<"f", "o", "o", "\n", "\n", "\n", " ", "b", "a", "r">>,
      ExpectedRenderMarkdown |-> "foo  \nbar",
      ExpectedRenderPlainText |-> "foo\nbar"],
     [Documentation |->
        <<"f", "o", "o", ".", "\n", "b", "a", "r">>,
      ExpectedRenderMarkdown |-> "foo.  \nbar",
      ExpectedRenderPlainText |-> "foo.\nbar"],
     [Documentation |->
        <<"f", "o", "o", ".", " ", "\n", "b", "a", "r">>,
      ExpectedRenderMarkdown |-> "foo.  \nbar",
      ExpectedRenderPlainText |-> "foo.\nbar"],
     [Documentation |->
        <<"f", "o", "o", "\n", "*", "b", "a", "r">>,
      ExpectedRenderMarkdown |-> "foo  \n\\*bar",
      ExpectedRenderPlainText |-> "foo\n*bar"],
     [Documentation |->
        <<"f", "o", "o", "\n", "b", "a", "r">>,
      ExpectedRenderMarkdown |-> "foo bar",
      ExpectedRenderPlainText |-> "foo bar"] >>

\* A hover on a symbol with a documentation comment.
HoverDocumentation ==
  /\ fresh
  /\ \/ \E doc \in SeqsUpTo({"a", " ", "\n", ".", "*"}, MaxDocLen) :
            HI' = [HI EXCEPT !.Documentation = doc]
     \/ \E i \in 1..Len(ParseDocumentationCases) :
            HI' = [HI EXCEPT !.Documentation = ParseDocumentationCases[i].Documentation]
  /\ UNCHANGED <<Constant, rendered, ops, pc, opDiag, patDiag, executor, Records, parsed, selection>>

\* A HoverInfo built by one of the test cases.
BuildCase ==
  /\ fresh
  /\ \E i \in 1..Len(PresentCases) : HI' = PresentCases[i].HI
  /\ UNCHANGED <<Constant, rendered, ops, pc, opDiag, patDiag, executor, Records, parsed, selection>>

Present ==
  /\ HI # DefaultHoverInfo
  /\ rendered = nullopt
  /\ rendered' = <<present(HI)>>
  /\ UNCHANGED <<Constant, HI, ops, pc, opDiag, patDiag, executor, Records, parsed, selection>>

HoverInit ==
  /\ Constant = nullopt
  /\ HI = DefaultHoverInfo
  /\ rendered = nullopt
  /\ executor = NoExecution
  /\ Records = <<>>
  /\ parsed = 0
  /\ selection = nullopt
  /\ ops = <<>>
  /\ pc = "matcher"
  /\ opDiag = <<>>
  /\ patDiag = notVerified

HoverNext ==
  \/ HoverExpr
  \/ HoverField
  \/ HoverArgument
  \/ HoverInclude
  \/ HoverDocumentation
  \/ BuildCase
  \/ Present

HoverSpec == HoverInit /\ [][HoverNext]_vars

-----------------------------------------------------------------------------
(* The combiner match table of the rule Test0, and its execution.  An     *)
(* entry of the table is one opcode with its arguments; "Label" and "Rule" *)
(* entries stand for the comments of the emitted table and take no space.  *)

\* The alternatives of the pattern fragment MatchFooPerms: the opcode of the
\* root and the opcodes of all the instructions of the pattern.
MatchFooPermsOfOneInstruction ==
  << [root |-> "G_ZEXT", insts |-> <<"G_ZEXT">>],
     [root |-> "G_TRUNC", insts |-> <<"G_TRUNC">>],
     [root |-> "G_FPEXT", insts |-> <<"G_FPEXT">>] >>

MatchFooPerms ==
  << [root |-> "G_ZEXT", insts |-> <<"G_ZEXT", "G_TRUNC">>],
     [root |-> "G_TRUNC", insts |-> <<"G_TRUNC">>],
     [root |-> "G_FPEXT", insts |-> <<"G_FPEXT">>] >>

NoLabel == [Opcode |-> "", Label |-> 0 - 1]

JumpTableShifted ==
  << [Opcode |-> "G_TRUNC", Label |-> 1] >> \o [i \in 1..6 |-> NoLabel]
  \o << [Opcode |-> "G_ZEXT", Label |-> 2] >> \o [i \in 1..55 |-> NoLabel]
  \o << [Opcode |-> "G_FPEXT", Label |-> 0] >>

\* The jump table of GIM_SwitchOpcode: one entry per opcode from the lowest
\* to the highest opcode of a root, most of them empty.
JumpTable ==
  << [Opcode |-> "G_TRUNC", Label |-> 0] >> \o [i \in 1..6 |-> NoLabel]
  \o << [Opcode |-> "G_ZEXT", Label |-> 1] >> \o [i \in 1..55 |-> NoLabel]
  \o << [Opcode |-> "G_FPEXT", Label |-> 2] >>

MatchTable0 ==
  << [op |-> "GIM_SwitchOpcode", MI |-> 0, Default |-> 3],
     [op |-> "Label", id |-> 0],
     [op |-> "GIM_Try", OnFail |-> 4, RuleID |-> 1],
     [op |-> "GIM_CheckSimplePredicate", Pred |-> "GICXXPred_Simple_IsRule0Enabled"],
     [op |-> "GIR_MakeTempReg", TempRegID |-> 0, TypeID |-> "GILLT_s32"],
     [op |-> "GIR_BuildConstant", TempRegID |-> 0, Val |-> 0],
     [op |-> "Rule", Combiner |-> 0, Name |-> "Test0", Alternative |-> 1],
     [op |-> "GIR_BuildMI", InsnID |-> 0, Opcode |-> "COPY"],
     [op |-> "GIR_Copy", NewInsnID |-> 0, OldInsnID |-> 0, OpIdx |-> 0],
     [op |-> "GIR_AddSimpleTempRegister", InsnID |-> 0, TempRegID |-> 0],
     [op |-> "GIR_EraseFromParent", InsnID |-> 0],
     [op |-> "GIR_Done"],
     [op |-> "Label", id |-> 4],
     [op |-> "GIM_Reject"],
     [op |-> "Label", id |-> 1],
     [op |-> "GIM_Try", OnFail |-> 5, RuleID |-> 0],
     [op |-> "GIM_CheckSimplePredicate", Pred |-> "GICXXPred_Simple_IsRule0Enabled"],
     [op |-> "GIM_RecordInsnIgnoreCopies", DefineMI |-> 1, MI |-> 0, OpIdx |-> 1],
     [op |-> "GIM_CheckOpcode", MI |-> 1, Opcode |-> "G_TRUNC"],
     [op |-> "GIM_CheckIsSafeToFold", InsnID |-> 1],
     [op |-> "GIR_MakeTempReg", TempRegID |-> 0, TypeID |-> "GILLT_s32"],
     [op |-> "GIR_BuildConstant", TempRegID |-> 0, Val |-> 0],
     [op |-> "Rule", Combiner |-> 0, Name |-> "Test0", Alternative |-> 0],
     [op |-> "GIR_BuildMI", InsnID |-> 0, Opcode |-> "COPY"],
     [op |-> "GIR_Copy", NewInsnID |-> 0, OldInsnID |-> 0, OpIdx |-> 0],
     [op |-> "GIR_AddSimpleTempRegister", InsnID |-> 0, TempRegID |-> 0],
     [op |-> "GIR_EraseFromParent", InsnID |-> 0],
     [op |-> "GIR_Done"],
     [op |-> "Label", id |-> 5],
     [op |-> "GIM_Reject"],
     [op |-> "Label", id |-> 2],
     [op |-> "GIM_Try", OnFail |-> 6, RuleID |-> 2],
     [op |-> "GIM_CheckSimplePredicate", Pred |-> "GICXXPred_Simple_IsRule0Enabled"],
     [op |-> "GIR_MakeTempReg", TempRegID |-> 0, TypeID |-> "GILLT_s32"],
     [op |-> "GIR_BuildConstant", TempRegID |-> 0, Val |-> 0],
     [op |-> "Rule", Combiner |-> 0, Name |-> "Test0", Alternative |-> 2],
     [op |-> "GIR_BuildMI", InsnID |-> 0, Opcode |-> "COPY"],
     [op |-> "GIR_Copy", NewInsnID |-> 0, OldInsnID |-> 0, OpIdx |-> 0],
     [op |-> "GIR_AddSimpleTempRegister", InsnID |-> 0, TempRegID |-> 0],
     [op |-> "GIR_EraseFromParent", InsnID |-> 0],
     [op |-> "GIR_Done"],
     [op |-> "Label", id |-> 6],
     [op |-> "GIM_Reject"],
     [op |-> "Label", id |-> 3],
     [op |-> "GIM_Reject"] >>

\* The place of a label in the table.
labelIdx(l) ==
  CHOOSE i \in 1..Len(MatchTable0) :
    MatchTable0[i].op = "Label" /\ MatchTable0[i].id = l

\* Opcodes are numbered from the lowest opcode of the jump table, which has
\* number 1; the numbers 0 and Len(JumpTable) + 1 stand for the opcodes
\* below and above the range of the switch.
Opcodes == 0..Len(JumpTable) + 1
getOpcodeName(n) == IF n \in 1..Len(JumpTable) THEN JumpTable[n].Opcode ELSE ""
opcodeNumber(name) == CHOOSE n \in 1..Len(JumpTable) : JumpTable[n].Opcode = name

current == MatchTable0[executor.CurrentIdx]
running == executor.Result = "running"
executed(e, name) == [e EXCEPT !.Executed = Append(@, name)]
advance(e) == [e EXCEPT !.CurrentIdx = @ + 1]

\* Resume at the innermost GIM_Try's fail label, or give up.
handleReject(e) ==
  IF e.OnFailResumeAt = <<>> THEN [e EXCEPT !.Result = "rejected"]
  ELSE [e EXCEPT !.CurrentIdx = labelIdx(e.OnFailResumeAt[Len(e.OnFailResumeAt)]),
                 !.OnFailResumeAt = SubSeq(@, 1, Len(@) - 1)]

\* The combiner tries the table on a root instruction: its opcode, the
\* instruction that defines its operand 1 (if one does) and whether that one
\* may be folded into the root, and whether the rule is enabled.
executeMatchTable ==
  /\ executor.Result = "idle"
  /\ \E opcode \in Opcodes, enabled \in BOOLEAN,
        def \in Opt({[Opcode |-> opcodeNumber(n), SafeToFold |-> b] :
                       n \in {"G_TRUNC", "G_ZEXT"}, b \in BOOLEAN}) :
       executor' = [executor EXCEPT
                      !.MIs = <<[Opcode |-> opcode, Def |-> def]>>,
                      !.RuleEnabled = enabled,
                      !.CurrentIdx = 1, !.Result = "running"]
  /\ UNCHANGED <<ops, pc, opDiag, patDiag, Constant, HI, rendered, Records,
                 parsed, selection>>

tableUnchanged ==
  UNCHANGED <<ops, pc, opDiag, patDiag, Constant, HI, rendered, Records,
              parsed, selection>>

\* Labels and rule names are comments.
SkipComment ==
  /\ running /\ current.op \in {"Label", "Rule"}
  /\ executor' = advance(executor)
  /\ tableUnchanged

GIM_SwitchOpcode ==
  /\ running /\ current.op = "GIM_SwitchOpcode"
  /\ LET Opcode == executor.MIs[current.MI + 1].Opcode
         e == executed(executor, current.op)
     IN  executor' =
           IF Opcode < 1 \/ Len(JumpTable) < Opcode \/ JumpTable[Opcode].Label < 0
           THEN [e EXCEPT !.CurrentIdx = labelIdx(current.Default)]
           ELSE [e EXCEPT !.CurrentIdx = labelIdx(JumpTable[Opcode].Label)]
  /\ tableUnchanged

GIM_Try ==
  /\ running /\ current.op = "GIM_Try"
  /\ executor' = advance([executed(executor, current.op) EXCEPT
                            !.OnFailResumeAt = Append(@, current.OnFail)])
  /\ tableUnchanged

GIM_CheckSimplePredicate ==
  /\ running /\ current.op = "GIM_CheckSimplePredicate"
  /\ LET e == executed(executor, current.op)
     IN  executor' = IF executor.RuleEnabled THEN advance(e) ELSE handleReject(e)
  /\ tableUnchanged

GIM_RecordInsnIgnoreCopies ==
  /\ running /\ current.op = "GIM_RecordInsnIgnoreCopies"
  /\ LET e == executed(executor, current.op)
         MO == executor.MIs[current.MI + 1].Def
     IN  executor' =
           IF has_value(MO)
           THEN advance([e EXCEPT !.MIs = Append(@, [Opcode |-> MO[1].Opcode,
                                                   SafeToFold |-> MO[1].SafeToFold])])
           ELSE handleReject(e)
  /\ tableUnchanged

GIM_CheckOpcode ==
  /\ running /\ current.op = "GIM_CheckOpcode"
  /\ LET e == executed(executor, current.op)
     IN  executor' =
           IF getOpcodeName(executor.MIs[current.MI + 1].Opcode) = current.Opcode
           THEN advance(e) ELSE handleReject(e)
  /\ tableUnchanged

GIM_CheckIsSafeToFold ==
  /\ running /\ current.op = "GIM_CheckIsSafeToFold"
  /\ LET e == executed(executor, current.op)
     IN  executor' =
           IF executor.MIs[current.InsnID + 1].SafeToFold
           THEN advance(e) ELSE handleReject(e)
  /\ tableUnchanged

GIM_Reject ==
  /\ running /\ current.op = "GIM_Reject"
  /\ executor' = handleReject(executed(executor, current.op))
  /\ tableUnchanged

\* The temporary registers and the built instructions are numbered from 0.
GIR_MakeTempReg ==
  /\ running /\ current.op = "GIR_MakeTempReg"
  /\ executor' = advance([executed(executor, current.op) EXCEPT
       !.TempRegisters = Append(@, [Type |-> current.TypeID, Constant |-> nullopt])])
  /\ tableUnchanged

GIR_BuildConstant ==
  /\ running /\ current.op = "GIR_BuildConstant"
  /\ executor' = advance([executed(executor, current.op) EXCEPT
       !.TempRegisters[current.TempRegID + 1].Constant = <<current.Val>>])
  /\ tableUnchanged

GIR_BuildMI ==
  /\ running /\ current.op = "GIR_BuildMI"
  /\ executor' = advance([executed(executor, current.op) EXCEPT
       !.OutMIs = Append(@, [Opcode |-> current.Opcode, Operands |-> <<>>])])
  /\ tableUnchanged

GIR_Copy ==
  /\ running /\ current.op = "GIR_Copy"
  /\ executor' = advance([executed(executor, current.op) EXCEPT
       !.OutMIs[current.NewInsnID + 1].Operands =
          Append(@, [OldInsnID |-> current.OldInsnID, OpIdx |-> current.OpIdx])])
  /\ tableUnchanged

GIR_AddSimpleTempRegister ==
  /\ running /\ current.op = "GIR_AddSimpleTempRegister"
  /\ executor' = advance([executed(executor, current.op) EXCEPT
       !.OutMIs[current.InsnID + 1].Operands =
          Append(@, [TempRegID |-> current.TempRegID])])
  /\ tableUnchanged

GIR_EraseFromParent ==
  /\ running /\ current.op = "GIR_EraseFromParent"
  /\ executor' = advance([executed(executor, current.op) EXCEPT
       !.Erased = Append(@, current.InsnID)])
  /\ tableUnchanged

GIR_Done ==
  /\ running /\ current.op = "GIR_Done"
  /\ executor' = [executed(executor, current.op) EXCEPT !.Result = "matched"]
  /\ tableUnchanged

MatchTableInit ==
  /\ executor = NoExecution
  /\ Records = <<>>
  /\ parsed = 0
  /\ selection = nullopt
  /\ Constant = nullopt
  /\ HI = DefaultHoverInfo
  /\ rendered = nullopt
  /\ ops = <<>>
  /\ pc = "matcher"
  /\ opDiag = <<>>
  /\ patDiag = notVerified

MatchTableNext ==
  \/ executeMatchTable
  \/ SkipComment
  \/ GIM_SwitchOpcode
  \/ GIM_Try
  \/ GIM_CheckSimplePredicate
  \/ GIM_RecordInsnIgnoreCopies
  \/ GIM_CheckOpcode
  \/ GIM_CheckIsSafeToFold
  \/ GIM_Reject
  \/ GIR_MakeTempReg
  \/ GIR_BuildConstant
  \/ GIR_BuildMI
  \/ GIR_Copy
  \/ GIR_AddSimpleTempRegister
  \/ GIR_EraseFromParent
  \/ GIR_Done

MatchTableSpec == MatchTableInit /\ [][MatchTableNext]_vars

-----------------------------------------------------------------------------
(* The export instructions: the classes of the instruction definitions,   *)
(* the statements that define the records in the order of the file, and   *)
(* the selection of an instruction for a call of an export intrinsic.     *)

\* EXPCommon: the fields of every export instruction.
EXPCommonNeverLoads(_row, _done, asm) ==
  [EXP |-> 1, EXP_CNT |-> 1, mayLoad |-> 0, mayStore |-> 1, maybeAtomic |-> 0,
   Uses |-> IF _row = 1 THEN <<"EXEC", "M0">> ELSE <<"EXEC">>,
   row |-> _row, done |-> _done, AsmString |-> asm]

EXPCommon(_row, _done, asm) ==
  [EXP |-> 1, EXP_CNT |-> 1, mayLoad |-> _done, mayStore |-> 1, maybeAtomic |-> 0,
   Uses |-> IF _row = 1 THEN <<"EXEC", "M0">> ELSE <<"EXEC">>,
   row |-> _row, done |-> _done, AsmString |-> asm]

\* A record is the fields of its class with its name, its class, the name
\* of its pseudo and its encoding family.
instruction(common, class, name, pseudo, subtarget) ==
  [Name |-> name, Class |-> class, PseudoInstr |-> pseudo, Subtarget |-> subtarget,
   isPseudo |-> IF class = "EXP_Pseudo" THEN 1 ELSE 0,
   EXP |-> common.EXP, EXP_CNT |-> common.EXP_CNT, mayLoad |-> common.mayLoad,
   mayStore |-> common.mayStore, maybeAtomic |-> common.maybeAtomic,
   Uses |-> common.Uses, row |-> common.row, done |-> common.done,
   AsmString |-> common.AsmString]

EXP_Pseudo(NAME, row, done) ==
  instruction(EXPCommon(row, done, ""), "EXP_Pseudo", NAME, NAME, "NONE")

EXP_Real_ComprVM(NAME, ps, subtarget) ==
  instruction(EXPCommon(0, ps.done,
                        "exp$tgt $src0, $src1, $src2, $src3"
                        \o (IF ps.done = 1 THEN " done" ELSE "") \o "$compr$vm"),
              "EXP_Real_ComprVM", NAME, ps.PseudoInstr, subtarget)

EXP_Real_Row(NAME, ps, subtarget, name) ==
  instruction(EXPCommon(ps.row, ps.done,
                        name \o "$tgt $src0, $src1, $src2, $src3"
                        \o (IF ps.done = 1 THEN " done" ELSE "")
                        \o (IF ps.row = 1 THEN " row_en" ELSE "")),
              "EXP_Real_Row", NAME, ps.PseudoInstr, subtarget)

\* !cast<EXP_Pseudo>(NAME): the record of that name among the records
\* defined so far.
cast(NAME) ==
  Records[CHOOSE i \in 1..Len(Records) :
            Records[i].Name = NAME /\ Records[i].Class = "EXP_Pseudo"]

\* The multiclasses: the records that a defm of the name NAME defines.
EXP_Real_si(NAME) ==
  LET ps == cast(NAME)
  IN  <<[EXP_Real_ComprVM(NAME \o "_si", ps, "SI") EXCEPT !.done = ps.done]>>

EXP_Real_vi(NAME) ==
  LET ps == cast(NAME)
  IN  <<[EXP_Real_ComprVM(NAME \o "_vi", ps, "VI") EXCEPT !.done = ps.done]>>

EXP_Real_gfx10(NAME) ==
  LET ps == cast(NAME)
  IN  <<[EXP_Real_ComprVM(NAME \o "_gfx10", ps, "GFX10") EXCEPT !.done = ps.done]>>

EXP_Real_gfx11(NAME) ==
  LET ps == cast(NAME)
  IN  <<[EXP_Real_Row(NAME \o "_gfx11", ps, "GFX11", "exp") EXCEPT
           !.row = ps.row, !.done = ps.done]>>

VEXPORT_Real_gfx12(NAME) ==
  LET ps == cast(NAME)
  IN  <<[EXP_Real_Row(NAME \o "_gfx12", ps, "GFX12", "export") EXCEPT
           !.row = ps.row, !.done = ps.done],
        [Name |-> "", Class |-> "AMDGPUMnemonicAlias", From |-> "exp", To |-> "export"]>>

multiclass(mc, NAME) ==
  CASE mc = "EXP_Real_si" -> EXP_Real_si(NAME)
    [] mc = "EXP_Real_vi" -> EXP_Real_vi(NAME)
    [] mc = "EXP_Real_gfx10" -> EXP_Real_gfx10(NAME)
    [] mc = "EXP_Real_gfx11" -> EXP_Real_gfx11(NAME)
    [] mc = "VEXPORT_Real_gfx12" -> VEXPORT_Real_gfx12(NAME)

\* The patterns.  A pattern matches a call of its intrinsic with sources of
\* its type and its value of done; the result names the instruction, and
\* gives src2, src3, vm and compr: an empty field is the operand of the
\* call of that name.
ExpPattern(vt, Inst, done_val) ==
  [Name |-> "", Class |-> "ExpPattern", intrinsic |-> "int_amdgcn_exp",
   vt |-> vt, done_val |-> done_val, last |-> "timm:$vm",
   Inst |-> Inst, src2 |-> <<>>, src3 |-> <<>>, vm |-> <<>>, compr |-> 0]

ExpRowPattern(vt, Inst, done_val) ==
  [Name |-> "", Class |-> "ExpRowPattern", intrinsic |-> "int_amdgcn_exp_row",
   vt |-> vt, done_val |-> done_val, last |-> "M0",
   Inst |-> Inst, src2 |-> <<>>, src3 |-> <<>>, vm |-> <<0>>, compr |-> 0]

ExpComprPatternUncompressed(vt, Inst, done_val) ==
  [Name |-> "", Class |-> "ExpComprPattern", intrinsic |-> "int_amdgcn_exp_compr",
   vt |-> vt, done_val |-> done_val, last |-> "timm:$vm",
   Inst |-> Inst, src2 |-> <<"IMPLICIT_DEF">>, src3 |-> <<"IMPLICIT_DEF">>,
   vm |-> <<>>, compr |-> 0]

ExpComprPattern(vt, Inst, done_val) ==
  [Name |-> "", Class |-> "ExpComprPattern", intrinsic |-> "int_amdgcn_exp_compr",
   vt |-> vt, done_val |-> done_val, last |-> "timm:$vm",
   Inst |-> Inst, src2 |-> <<"IMPLICIT_DEF">>, src3 |-> <<"IMPLICIT_DEF">>,
   vm |-> <<>>, compr |-> 1]

\* The statements of the file, in its order.
Statements ==
  << [stmt |-> "def", NAME |-> "EXP", args |-> <<0, 0>>],
     [stmt |-> "def", NAME |-> "EXP_DONE", args |-> <<0, 1>>],
     [stmt |-> "def", NAME |-> "EXP_ROW", args |-> <<1, 0>>],
     [stmt |-> "def", NAME |-> "EXP_ROW_DONE", args |-> <<1, 1>>],
     [stmt |-> "defm", NAME |-> "EXP",
      args |-> <<"EXP_Real_si", "EXP_Real_vi", "EXP_Real_gfx10">>],
     [stmt |-> "defm", NAME |-> "EXP_DONE",
      args |-> <<"EXP_Real_si", "EXP_Real_vi", "EXP_Real_gfx10">>],
     [stmt |-> "defm", NAME |-> "EXP", args |-> <<"EXP_Real_gfx11", "VEXPORT_Real_gfx12">>],
     [stmt |-> "defm", NAME |-> "EXP_DONE", args |-> <<"EXP_Real_gfx11", "VEXPORT_Real_gfx12">>],
     [stmt |-> "defm", NAME |-> "EXP_ROW", args |-> <<"EXP_Real_gfx11", "VEXPORT_Real_gfx12">>],
     [stmt |-> "defm", NAME |-> "EXP_ROW_DONE",
      args |-> <<"EXP_Real_gfx11", "VEXPORT_Real_gfx12">>],
     [stmt |-> "ExpPattern", NAME |-> "EXP", args |-> <<"i32", 0>>],
     [stmt |-> "ExpPattern", NAME |-> "EXP_DONE", args |-> <<"i32", 0 - 1>>],
     [stmt |-> "ExpPattern", NAME |-> "EXP", args |-> <<"f32", 0>>],
     [stmt |-> "ExpPattern", NAME |-> "EXP_DONE", args |-> <<"f32", 0 - 1>>],
     [stmt |-> "ExpRowPattern", NAME |-> "EXP_ROW", args |-> <<"i32", 0>>],
     [stmt |-> "ExpRowPattern", NAME |-> "EXP_ROW_DONE", args |-> <<"i32", 0 - 1>>],
     [stmt |-> "ExpRowPattern", NAME |-> "EXP_ROW", args |-> <<"f32", 0>>],
     [stmt |-> "ExpRowPattern", NAME |-> "EXP_ROW_DONE", args |-> <<"f32", 0 - 1>>],
     [stmt |-> "ExpComprPattern", NAME |-> "EXP", args |-> <<"v2i16", 0>>],
     [stmt |-> "ExpComprPattern", NAME |-> "EXP_DONE", args |-> <<"v2i16", 0 - 1>>],
     [stmt |-> "ExpComprPattern", NAME |-> "EXP", args |-> <<"v2f16", 0>>],
     [stmt |-> "ExpComprPattern", NAME |-> "EXP_DONE", args |-> <<"v2f16", 0 - 1>>] >>

statement == Statements[parsed + 1]
expUnchanged == UNCHANGED <<ops, pc, opDiag, patDiag, Constant, HI, rendered, executor>>

RECURSIVE instantiate(_, _)
instantiate(mcs, NAME) ==
  IF mcs = <<>> THEN <<>>
  ELSE multiclass(Head(mcs), NAME) \o instantiate(Tail(mcs), NAME)

\* def NAME : EXP_Pseudo<row, done>;
DefPseudo ==
  /\ parsed < Len(Statements) /\ statement.stmt = "def"
  /\ Records' = Append(Records,
                       EXP_Pseudo(statement.NAME, statement.args[1], statement.args[2]))
  /\ parsed' = parsed + 1
  /\ UNCHANGED selection
  /\ expUnchanged

\* defm NAME : multiclass, ...;
DefmReal ==
  /\ parsed < Len(Statements) /\ statement.stmt = "defm"
  /\ Records' = Records \o instantiate(statement.args, statement.NAME)
  /\ parsed' = parsed + 1
  /\ UNCHANGED selection
  /\ expUnchanged

\* def : ExpPattern<vt, Inst, done_val>; and the two other classes.
DefPattern ==
  /\ parsed < Len(Statements)
  /\ statement.stmt \in {"ExpPattern", "ExpRowPattern", "ExpComprPattern"}
  /\ LET vt == statement.args[1]
         Inst == statement.NAME
         done_val == statement.args[2]
     IN  Records' = Append(Records,
           CASE statement.stmt = "ExpPattern" -> ExpPattern(vt, Inst, done_val)
             [] statement.stmt = "ExpRowPattern" -> ExpRowPattern(vt, Inst, done_val)
             [] statement.stmt = "ExpComprPattern" -> ExpComprPattern(vt, Inst, done_val))
  /\ parsed' = parsed + 1
  /\ UNCHANGED selection
  /\ expUnchanged

\* The calls of the export intrinsics: the sources are two or four values
\* of one type, done is an i1 immediate (0, or -1 for true), and the last
\* operand is the immediate vm or, of int_amdgcn_exp_row, the row in M0.
Intrinsics == {"int_amdgcn_exp", "int_amdgcn_exp_row", "int_amdgcn_exp_compr"}
ValueTypes == {"i32", "f32", "v2i16", "v2f16"}
Sources == <<"v0", "v1", "v2", "v3">>
Calls ==
  {[intrinsic |-> i, vt |-> vt, tgt |-> tgt, en |-> en, done |-> done, vm |-> vm,
    src |-> IF i = "int_amdgcn_exp_compr" THEN SubSeq(Sources, 1, 2) ELSE Sources,
    last |-> IF i = "int_amdgcn_exp_row" THEN "M0" ELSE "timm:$vm"] :
     i \in Intrinsics, vt \in ValueTypes, tgt \in 0..MaxTgt, en \in 0..MaxEn,
     done \in {0, 0 - 1}, vm \in 0..1}

isPattern(r) == r.Class \in {"ExpPattern", "ExpRowPattern", "ExpComprPattern"}
matches(P, call) ==
  /\ P.intrinsic = call.intrinsic
  /\ P.vt = call.vt
  /\ P.done_val = call.done
  /\ P.last = call.last

\* The result of a pattern: (Inst tgt, src0, src1, src2, src3, vm, compr, en).
result(P, call) ==
  [Inst |-> P.Inst, tgt |-> call.tgt, src0 |-> call.src[1], src1 |-> call.src[2],
   src2 |-> IF has_value(P.src2) THEN P.src2[1] ELSE call.src[3],
   src3 |-> IF has_value(P.src3) THEN P.src3[1] ELSE call.src[4],
   vm |-> IF has_value(P.vm) THEN P.vm[1] ELSE call.vm,
   compr |-> P.compr, en |-> call.en]

\* The first pattern that matches gives the instruction; no pattern, none.
select(call) ==
  LET found == {i \in 1..Len(Records) : isPattern(Records[i]) /\ matches(Records[i], call)}
  IN  IF found = {} THEN nullopt
      ELSE <<result(Records[CHOOSE i \in found : \A j \in found : i <= j], call)>>

Select ==
  /\ parsed = Len(Statements)
  /\ \E call \in Calls :
       selection' = <<[call |-> call, selected |-> select(call)]>>
  /\ UNCHANGED <<Records, parsed>>
  /\ expUnchanged

ExpInit ==
  /\ Records = <<>>
  /\ parsed = 0
  /\ selection = nullopt
  /\ executor = NoExecution
  /\ Constant = nullopt
  /\ HI = DefaultHoverInfo
  /\ rendered = nullopt
  /\ ops = <<>>
  /\ pc = "matcher"
  /\ opDiag = <<>>
  /\ patDiag = notVerified

ExpNext ==
  \/ DefPseudo
  \/ DefmReal
  \/ DefPattern
  \/ Select

ExpSpec == ExpInit /\ [][ExpNext]_vars

-----------------------------------------------------------------------------
\* Properties of the PDL verifiers

verified == pc \in {"ops_verified", "done"}

inMatcher(op) == ops[op].parent = "pattern"
inRewrite(op) == ops[op].parent = "rewrite"

\* The operations that must be bound in the matcher.
needsBinding(op) ==
  \/ kindOf(op) \in {"operand", "operands", "operation"}
  \/ kindOf(op) \in {"attribute", "type", "types"} /\ ~ops[op].const

Max(S) == CHOOSE x \in S : \A y \in S : y <= x
Min(S) == CHOOSE x \in S : \A y \in S : x <= y

\* op -> r1 -> ... -> rk -> u: each a user of the one before, every ri a
\* pdl.result or pdl.results and u of another kind.
isBindingChain(op, S) ==
  /\ S # {}
  /\ ~isResultOp(Max(S))
  /\ \A r \in S \ {Max(S)} : isResultOp(r)
  /\ \A x \in ({op} \cup S) \ {Max(S)} : Min({y \in S : y > x}) \in getUsers(x)

hasBindingChain(op) ==
  \E S \in SUBSET {j \in Ids : j > op} : isBindingChain(op, S)

attrCountsMatch(op) == ops[op].attrNames = Len(ops[op].attrs)

\* C1 as stated: in the matcher, verify() of an operation that needs a
\* binding succeeds only with a binding use and otherwise fails with the
\* bindable-user error; outside of a pattern the binding-use check succeeds;
\* a type with constant type(s) always verifies.
C1_AsStated ==
  verified =>
    \A op \in Ids :
      /\ needsBinding(op) /\ inMatcher(op) =>
           /\ succeeded(opDiag[op]) => hasBindingChain(op)
           /\ ~hasBindingChain(op) => opDiag[op] = emitOpError(ErrBindableUser)
      /\ ~inMatcher(op) => verifyHasBindingUse(op) = success
      /\ kindOf(op) \in {"type", "types"} /\ ops[op].const => opDiag[op] = success

\* C1, amended: as above, except that a pdl.operation whose attribute names
\* and attribute values differ in number fails with the attribute count
\* error, with or without a binding use.
C1_BindingUse ==
  verified =>
    \A op \in Ids :
      /\ needsBinding(op) /\ inMatcher(op) =>
           /\ succeeded(opDiag[op]) => hasBindingChain(op)
           /\ ~hasBindingChain(op) =>
                opDiag[op] = IF kindOf(op) = "operation" /\ ~attrCountsMatch(op)
                               THEN emitOpError(ErrAttrCount)
                               ELSE emitOpError(ErrBindableUser)
      /\ ~inMatcher(op) => verifyHasBindingUse(op) = success
      /\ kindOf(op) \in {"type", "types"} /\ ops[op].const => opDiag[op] = success

\* An unbound operation of the matcher is rejected and a bound one accepted.
C1_Witness ==
  /\ verified
  /\ \E op \in Ids : /\ needsBinding(op) /\ inMatcher(op) /\ ~hasBindingChain(op)
                     /\ opDiag[op] = emitOpError(ErrBindableUser)
  /\ \E op \in Ids : /\ needsBinding(op) /\ inMatcher(op) /\ hasBindingChain(op)
                     /\ succeeded(opDiag[op])

\* The operations the connected-component check looks at: operands, results
\* and operations of the body with a user in the pdl.rewrite.
usedInRewrite(op) ==
  \E user \in getUsers(op) : kindOf(user) = "rewrite" \/ inRewrite(user)

componentCandidates ==
  {op \in Ids : inMatcher(op) /\ usedInRewrite(op) /\
                kindOf(op) \in {"operand", "operands", "result", "results", "operation"}}

markable(op) == inMatcher(op) /\ kindOf(op) # "rewrite"

followed(op) ==
  getUsers(op) \cup
  (IF kindOf(op) = "operation" THEN Range(ops[op].args)
   ELSE IF isResultOp(op) THEN {ops[op].args[1]}
   ELSE {})

RECURSIVE closure(_)
closure(S) ==
  LET T == S \cup {n \in UNION {followed(o) : o \in S} : markable(n)}
  IN IF T = S THEN S ELSE closure(T)

reachedFrom(start) == IF markable(start) THEN closure({start}) ELSE {}

earlierChecksPass ==
  /\ kindOf(getTerminator) = "rewrite"
  /\ \A op \in Ids : inMatcher(op) \/ inRewrite(op) => kindOf(op) # "foreign"
  /\ \E op \in Ids : inMatcher(op) /\ kindOf(op) = "operation"

\* C2: once the earlier checks pass, verifyRegions reports a disconnected
\* component exactly when a candidate is not reached by visit() from the
\* first candidate in block order, and succeeds otherwise; visit() marks
\* exactly the operations of the body, the pdl.rewrite excepted, reachable
\* through operands of operations, parents of results and users.
C2_ConnectedComponent ==
  pc = "done" /\ earlierChecksPass =>
    /\ \A op \in Ids : visit(op, {}) = reachedFrom(op)
    /\ IF /\ componentCandidates # {}
          /\ ~(componentCandidates \subseteq reachedFrom(Min(componentCandidates)))
         THEN patDiag.msg = ErrConnected
       ELSE patDiag = success

\* A pattern is rejected as disconnected although the search reached more
\* than the operation it started from.
C2_Witness ==
  /\ pc = "done"
  /\ patDiag.msg = ErrConnected
  /\ Cardinality(visit(Min(componentCandidates), {})) >= 2

\* The replace uses of op from which its result types can be inferred.
inferableFromReplace(op) ==
  \E user \in Ids :
    /\ kindOf(user) = "replace"
    /\ \E n \in 2..Len(ops[user].args) : ops[user].args[n] = op
    /\ ~inRewrite(ops[user].args[1]) \/ ops[user].args[1] < op

\* Result type number i of op is constrained.
typeIsUsable(op, i) ==
  LET def == ops[op].types[i]
  IN \/ kindOf(def) = "apply_native_rewrite"
     \/ /\ kindOf(def) \in {"type", "types"}
        /\ \/ ops[def].const
           \/ \E user \in getUsers(def) :
                ~inRewrite(user) /\ kindOf(user) \in {"operand", "operands", "operation"}

unusableTypes(op) == {i \in DOMAIN ops[op].types : ~typeIsUsable(op, i)}

\* C3: an operation of the rewrite with explicit result types, a name that
\* cannot have InferTypeOpInterface and no inference from a replace passes
\* the result type check exactly when every result type is usable, and
\* otherwise fails with a note on the lowest unusable index.
C3_ExplicitResultTypes ==
  \A op \in Ids :
    /\ kindOf(op) = "operation" /\ inRewrite(op)
    /\ getOpName(op) /\ ~mightHaveTypeInference(op)
    /\ ops[op].types # <<>> /\ ~inferableFromReplace(op)
    => resultTypesCheck(op) =
         IF unusableTypes(op) = {} THEN success
         ELSE attachNote(ErrNotInferable, NoteNotConstrained, Min(unusableTypes(op)) - 1)

\* verify() reported a second result type as the first unconstrained one.
C3_Witness ==
  /\ verified
  /\ \E op \in Ids :
       /\ kindOf(op) = "operation" /\ inRewrite(op) /\ ~inferableFromReplace(op)
       /\ opDiag[op] = attachNote(ErrNotInferable, NoteNotConstrained, 1)

untypedInRewrite(op) ==
  /\ kindOf(op) = "operation" /\ inRewrite(op) /\ getOpName(op)
  /\ ops[op].types = <<>> /\ ~inferableFromReplace(op)

registeredName(op) == ops[op].name \in {"infer", "zero", "variadic", "one"}
hasResultCountTrait(op) == ops[op].name \in {"zero", "variadic"}

\* C4 as stated: without result types, an unregistered name passes and a
\* registered one fails exactly when it has neither ZeroResults nor
\* VariadicResults.
C4_AsStated ==
  \A op \in Ids :
    untypedInRewrite(op) =>
      /\ ~registeredName(op) => resultTypesCheck(op) = success
      /\ registeredName(op) =>
           resultTypesCheck(op) =
             IF ~hasResultCountTrait(op)
               THEN attachNote(ErrNotInferable, NoteNoInterface, op)
               ELSE success

\* C4, amended: a registered name fails exactly when it has neither trait and
\* does not implement InferTypeOpInterface.
C4_NoResultTypes ==
  \A op \in Ids :
    untypedInRewrite(op) =>
      /\ ~registeredName(op) => resultTypesCheck(op) = success
      /\ registeredName(op) =>
           resultTypesCheck(op) =
             IF ~hasResultCountTrait(op) /\ ops[op].name # "infer"
               THEN attachNote(ErrNotInferable, NoteNoInterface, op)
               ELSE success

\* verify() rejected an operation without result types.
C4_Witness ==
  /\ verified
  /\ \E op \in Ids :
       /\ untypedInRewrite(op) /\ registeredName(op)
       /\ opDiag[op] = attachNote(ErrNotInferable, NoteNoInterface, op)

\* The outcome of the result type check when no use in a pdl.replace counts.
withoutInference(op) ==
  IF ops[op].types = <<>>
    THEN IF ops[op].name \in {"one", "infer"}
           THEN attachNote(ErrNotInferable, NoteNoInterface, op)
         ELSE success
  ELSE IF unusableTypes(op) = {} THEN success
  ELSE attachNote(ErrNotInferable, NoteNotConstrained, Min(unusableTypes(op)) - 1)

\* C5: the result types of an operation of the rewrite are accepted when it
\* is the replacement (not operand 0) in a pdl.replace whose replaced
\* operation is outside of the rewrite block or before it in the block; no
\* other use in a pdl.replace changes the outcome of the check.
C5_InferFromReplace ==
  \A op \in Ids :
    kindOf(op) = "operation" /\ inRewrite(op) /\ getOpName(op) /\ ~mightHaveTypeInference(op)
    => resultTypesCheck(op) =
         IF inferableFromReplace(op) THEN success ELSE withoutInference(op)

\* verify() accepted an operation that has no result types and expects a
\* result, as the replacement of an operation created before it in the rewrite.
C5_Witness ==
  /\ verified
  /\ \E op \in Ids, user \in Ids :
       /\ kindOf(op) = "operation" /\ inRewrite(op)
       /\ ops[op].name = "one" /\ ops[op].types = <<>>
       /\ kindOf(user) = "replace" /\ Len(ops[user].args) = 2
       /\ ops[user].args[2] = op
       /\ inRewrite(ops[user].args[1]) /\ ops[user].args[1] < op
       /\ opDiag[op] = success

nestedInBody(op) == inMatcher(op) \/ inRewrite(op)

\* C6: verifyRegions checks, in this order, that the body ends with a
\* pdl.rewrite, that every nested operation, those of the rewrite included,
\* is a pdl operation, and that the body holds a pdl.operation; the first
\* check that fails gives the error, and only a pattern passing all three
\* reaches the connected-component check.
C6_PatternStructure ==
  pc = "done" =>
    /\ kindOf(getTerminator) # "rewrite" =>
         patDiag = attachNote(ErrTerminator, NoteTerminator, getTerminator)
    /\ /\ kindOf(getTerminator) = "rewrite"
       /\ \E op \in Ids : nestedInBody(op) /\ kindOf(op) = "foreign"
       => patDiag.msg = ErrNonPDL
    /\ /\ kindOf(getTerminator) = "rewrite"
       /\ \A op \in Ids : nestedInBody(op) => kindOf(op) # "foreign"
       /\ \A op \in Ids : inMatcher(op) => kindOf(op) # "operation"
       => patDiag = emitOpError(ErrNoOperation)
    /\ patDiag.msg \in {"success", ErrConnected} => earlierChecksPass

\* A pattern without a pdl.operation is rejected for an operation of another
\* dialect that sits in the rewrite region.
C6_Witness ==
  /\ pc = "done"
  /\ patDiag.msg = ErrNonPDL
  /\ \A op \in Ids : inMatcher(op) => kindOf(op) \notin {"operation", "foreign"}
  /\ \E op \in Ids : inRewrite(op) /\ kindOf(op) = "foreign"

-----------------------------------------------------------------------------
\* Properties of the hover rendering

presented == rendered # nullopt

\* The texts of the paragraphs a statement of present() added.
textsOf(p) ==
  LET doc == rendered[1]
      sel == SelectSeq(doc, LAMBDA x : x.para = p)
  IN  [i \in 1..Len(sel) |-> sel[i].text]

renderedLines == [i \in 1..Len(rendered[1]) |-> rendered[1][i].text]

\* The test cases render as the tests expect.
casesRenderAsExpected ==
  \A i \in 1..Len(PresentCases) :
     presented /\ HI = PresentCases[i].HI
       => renderedLines = PresentCases[i].ExpectedRender

inBytes(n) == ToString(n) \o (IF n = 1 THEN " byte" ELSE " bytes")
inBits(n) == ToString(n) \o (IF n = 1 THEN " bit" ELSE " bits")
sizeText(n) == IF n % 8 = 0 THEN inBytes(n \div 8) ELSE inBits(n)
offsetText(n) ==
  IF n % 8 = 0 THEN inBytes(n \div 8)
  ELSE inBytes(n \div 8) \o " and " \o inBits(n % 8)

\* C7: sizes, paddings, offsets and alignments are stored in bits.  A size or
\* padding that is a multiple of 8 is printed in bytes and otherwise in bits;
\* an offset that is a multiple of 8 is printed in bytes and otherwise as
\* whole bytes plus the remaining bits; the alignment is printed in bytes;
\* padding, when present, is appended to the size as "(+N ... padding)".
C7_SizeOffsetRendering ==
  presented =>
    /\ has_value(HI.Offset) =>
         textsOf("Offset") = <<"Offset: " \o offsetText(HI.Offset[1])>>
    /\ has_value(HI.Size) =>
         textsOf("Size") =
           <<"Size: " \o sizeText(HI.Size[1])
             \o (IF has_value(HI.Padding)
                 THEN " (+" \o sizeText(HI.Padding[1]) \o " padding)" ELSE "")
             \o (IF has_value(HI.Align)
                 THEN ", alignment " \o inBytes(HI.Align[1] \div 8) ELSE "")>>
    /\ casesRenderAsExpected

C7_Witness ==
  /\ presented
  /\ has_value(HI.Size) /\ HI.Size[1] % 8 # 0
  /\ has_value(HI.Offset) /\ HI.Offset[1] % 8 # 0 /\ HI.Offset[1] > 8
  /\ has_value(HI.Padding) /\ HI.Padding[1] % 8 = 0
  /\ has_value(HI.Align)

evaluated == has_value(Constant)

topIs(V, d) == \A i \in 1..Len(V) - 8 : V[i] = d
negative(V) == V[1] >= 8
fitsIn32Signed(V) ==
  \/ topIs(V, 15) /\ V[Len(V) - 7] >= 8
  \/ topIs(V, 0) /\ V[Len(V) - 7] < 8
atLeast10(V) == ~negative(V) /\ ((\E i \in 1..Len(V) - 1 : V[i] # 0) \/ V[Len(V)] >= 10)

RECURSIVE digitsValue(_)
digitsValue(n) ==
  IF n = <<>> THEN 0 ELSE 16 * digitsValue(SubSeq(n, 1, Len(n) - 1)) + n[Len(n)]

\* The number a constant of less than 32 signed bits stands for.
numberOf(V) ==
  LET low == SubSeq(V, Len(V) - 7, Len(V))
  IN  IF negative(V)
      THEN (digitsValue(<<low[1] - 8>> \o Tail(low)) - 2147483647) - 1
      ELSE digitsValue(low)

decimalOf(V) ==
  IF fitsIn32Signed(V) /\ V[Len(V) - 7] # 8 THEN ToString(numberOf(V))
  ELSE getAsString(V)

RECURSIVE digitsOf(_)
digitsOf(n) == IF n = <<>> THEN "" ELSE digitsOf(SubSeq(n, 1, Len(n) - 1)) \o hexDigit(n[Len(n)])

significant(n) ==
  LET nz == {i \in 1..Len(n) : n[i] # 0}
  IN  IF nz = {} THEN <<0>>
      ELSE SubSeq(n, CHOOSE i \in nz : \A j \in nz : i <= j, Len(n))

hexOf(V) ==
  IF negative(V)
  THEN IF fitsIn32Signed(V) THEN digitsOf(SubSeq(V, Len(V) - 7, Len(V)))
       ELSE digitsOf(V)
  ELSE digitsOf(significant(V))

passedText ==
  LET Arg == HI.CalleeArgInfo[1]
      Pass == HI.CallPassType[1]
      mode == CASE Pass.PassBy = "Ref" -> " by reference"
                [] Pass.PassBy = "ConstRef" -> " by const reference"
                [] Pass.PassBy = "Value" /\ ~has_value(Arg.Name) -> " by value"
                [] OTHER -> ""
      as == IF has_value(Arg.Name) THEN " as " \o Arg.Name[1] ELSE ""
      conv == IF Pass.Converted THEN " (converted to " \o Arg.Type.Type \o ")" ELSE ""
  IN  "Passed" \o mode \o as \o conv

\* C9: with CalleeArgInfo and CallPassType, present() emits one "Passed" line:
\* "Passed", then " by reference" or " by const reference", or for a value
\* " by value" only when the parameter has no name; then " as <name>" when
\* it has one; then " (converted to <parameter type>)" when Converted.
\* The parameter's default value is never shown.
C9_PassedLine ==
  presented /\ has_value(HI.CalleeArgInfo) /\ has_value(HI.CallPassType) =>
    /\ textsOf("Passed") = <<passedText>>
    /\ casesRenderAsExpected

C9_Witness ==
  /\ presented
  /\ has_value(HI.CalleeArgInfo) /\ has_value(HI.CallPassType)
  /\ HI.CallPassType[1].PassBy = "Value" /\ HI.CallPassType[1].Converted
  /\ has_value(HI.CalleeArgInfo[1].Name)
  /\ has_value(HI.CalleeArgInfo[1].Default)

RECURSIVE commaSeparated(_)
commaSeparated(names) ==
  IF Len(names) = 1 THEN names[1]
  ELSE commaSeparated(SubSeq(names, 1, Len(names) - 1)) \o ", " \o names[Len(names)]

\* C10: with UsedSymbolNames, present() prints "provides" followed by at most
\* the first 5 names in their order, comma separated, duplicates kept; more
\* than 5 names are followed by "and N more", N the number of names minus 5;
\* with 5 names or fewer there is no such suffix.
C10_Provides ==
  presented /\ HI.UsedSymbolNames # <<>> =>
    LET names == HI.UsedSymbolNames
    IN  /\ textsOf("provides") =
             <<IF Len(names) > 5
               THEN "provides " \o commaSeparated(SubSeq(names, 1, 5))
                    \o " and " \o ToString(Len(names) - 5) \o " more"
               ELSE "provides " \o commaSeparated(names)>>
        /\ casesRenderAsExpected

C10_Witness ==
  /\ presented
  /\ Len(HI.UsedSymbolNames) > 5
  /\ HI.UsedSymbolNames[1] = HI.UsedSymbolNames[2]
  /\ HI.UsedSymbolNames[5] # HI.UsedSymbolNames[6]

\* The paragraphs present() made of the documentation comment.
documentation ==
  LET sel == SelectSeq(rendered[1], LAMBDA x : x.para = "Documentation")
  IN  [i \in 1..Len(sel) |-> sel[i].chars]

white(c) == c \in {" ", "\t", "\n"}

\* The lines of a text, cut at its newlines.
RECURSIVE linesOf(_, _)
linesOf(s, line) ==
  IF s = <<>> THEN <<line>>
  ELSE IF s[Len(s)] = "\n" THEN linesOf(SubSeq(s, 1, Len(s) - 1), <<>>) \o <<line>>
  ELSE linesOf(SubSeq(s, 1, Len(s) - 1), <<s[Len(s)]>> \o line)

\* A line without the whitespace around it, runs of whitespace as one space.
RECURSIVE squeeze(_)
squeeze(s) ==
  IF s = <<>> THEN <<>>
  ELSE IF white(s[1])
       THEN (IF Len(s) = 1 \/ white(s[2]) THEN squeeze(Tail(s))
             ELSE <<" ">> \o squeeze(Tail(s)))
  ELSE <<s[1]>> \o squeeze(Tail(s))

stripped(s) ==
  LET t == squeeze(s) IN IF t # <<>> /\ t[1] = " " THEN Tail(t) ELSE t

\* The lines the comment is to give: a line joins the line before it with
\* one space unless a blank line lies between them, the line before ends
\* with a period or the line starts with an asterisk.
RECURSIVE joinedLines(_, _, _)
joinedLines(ls, acc, blank) ==
  IF ls = <<>> THEN acc
  ELSE LET l == stripped(Head(ls))
           prev == acc[Len(acc)]
       IN  IF l = <<>> THEN joinedLines(Tail(ls), acc, TRUE)
           ELSE IF acc = <<>> THEN joinedLines(Tail(ls), <<l>>, FALSE)
           ELSE IF blank \/ prev[Len(prev)] = "." \/ l[1] = "*"
           THEN joinedLines(Tail(ls), Append(acc, l), FALSE)
           ELSE joinedLines(Tail(ls),
                  [acc EXCEPT ![Len(acc)] = prev \o <<" ">> \o l], FALSE)

unescaped(s) == SelectSeq(s, LAMBDA c : c # "\\")

\* The lines of a rendering: trailing spaces mark a line break in markdown.
lineStructure(text) ==
  LET ls == linesOf(text, <<>>)
  IN  [i \in 1..Len(ls) |-> stripped(unescaped(ls[i]))]

\* C11: parseDocumentation joins two lines separated by a single newline
\* with exactly one space, whatever whitespace surrounds the newline, unless
\* the earlier line ends with a period or the later line starts with "*",
\* where a line break is kept; a run of blank lines yields exactly one line
\* break; leading and trailing whitespace and blank lines are dropped.  The
\* plain text and the markdown renderings have the same line structure.
C11_ParseDocumentation ==
  presented /\ HI.Documentation # <<>> =>
    /\ documentation = joinedLines(linesOf(HI.Documentation, <<>>), <<>>, FALSE)
    /\ lineStructure(asMarkdown(documentation))
         = lineStructure(asPlainText(documentation))
    /\ documentation # <<>> =>
         lineStructure(asPlainText(documentation)) = documentation
    /\ \A i \in 1..Len(ParseDocumentationCases) :
         HI.Documentation = ParseDocumentationCases[i].Documentation =>
           /\ toStr(asMarkdown(documentation))
                = ParseDocumentationCases[i].ExpectedRenderMarkdown
           /\ toStr(asPlainText(documentation))
                = ParseDocumentationCases[i].ExpectedRenderPlainText

C11_Witness ==
  /\ presented
  /\ Len(HI.Documentation) > 2 /\ HI.Documentation[2] = "\n"
  /\ Len(documentation) = 2
  /\ \E i \in 1..Len(documentation[1]) : documentation[1][i] = " "

-----------------------------------------------------------------------------
\* Properties of the combiner match table

entriesOf(name) == {i \in 1..Len(MatchTable0) : MatchTable0[i].op = name}
isAction(name) == SubSeq(name, 1, 4) = "GIR_"
isCheck(name) == SubSeq(name, 1, 4) = "GIM_"
rootName == getOpcodeName(executor.MIs[1].Opcode)
rootsOfAlternatives == {MatchFooPerms[k].root : k \in 1..Len(MatchFooPerms)}
actionsExecuted == {i \in 1..Len(executor.Executed) : isAction(executor.Executed[i])}
executing(name) == running /\ current.op = name

\* One try per alternative, numbered by the alternatives, each guarded by
\* the same predicate and named as an alternative of combiner rule 0.
oneTryPerAlternative ==
  /\ Cardinality(entriesOf("GIM_Try")) = Len(MatchFooPerms)
  /\ {MatchTable0[i].RuleID : i \in entriesOf("GIM_Try")} = 0..Len(MatchFooPerms) - 1
  /\ \A i \in entriesOf("GIM_Try") :
       /\ MatchTable0[i + 1].op = "GIM_CheckSimplePredicate"
       /\ MatchTable0[i + 1].Pred = "GICXXPred_Simple_IsRule0Enabled"
       /\ \E j \in entriesOf("Rule") :
            /\ i < j /\ j < labelIdx(MatchTable0[i].OnFail)
            /\ MatchTable0[j].Combiner = 0
            /\ MatchTable0[j].Alternative = MatchTable0[i].RuleID
  /\ Cardinality(entriesOf("GIM_CheckSimplePredicate")) = Len(MatchFooPerms)
  /\ MatchTable0[1].op = "GIM_SwitchOpcode" /\ MatchTable0[1].MI = 0

\* C12: the table has one try per alternative of the pattern fragment, with
\* rule IDs 0..2, all of combiner rule 0 and all guarded by the same
\* predicate, and begins with a switch on the opcode of the root; the try
\* that is entered is the one of the alternative whose root has the root's
\* opcode; a root of any other opcode enters no try; and an execution that
\* rejects the root ends in GIM_Reject and has executed no GIR_ action, which
\* is the end of every execution whose try block fails because the rule is
\* disabled.
C12_SwitchAndTries ==
  /\ oneTryPerAlternative
  /\ executing("GIM_Try") =>
       /\ MatchFooPerms[current.RuleID + 1].root = rootName
       /\ executor.Executed = <<"GIM_SwitchOpcode">>
  /\ executor.Result # "idle" /\ rootName \notin rootsOfAlternatives =>
       /\ "GIM_Try" \notin Range(executor.Executed)
       /\ executor.Result # "matched"
       /\ actionsExecuted = {}
  /\ executor.Result = "rejected" =>
       /\ executor.Executed[Len(executor.Executed)] = "GIM_Reject"
       /\ actionsExecuted = {}
  /\ executor.Result # "idle" /\ ~executor.RuleEnabled =>
       /\ executor.Result # "matched"
       /\ actionsExecuted = {}

\* Roots of each alternative's opcode have entered their try, and a root of
\* another opcode and a root whose try failed have been rejected.
C12_Witness ==
  /\ executor.Result = "rejected"
  /\ rootName = "G_ZEXT"
  /\ executor.RuleEnabled
  /\ "GIM_CheckIsSafeToFold" \in Range(executor.Executed)

C12_WitnessOtherOpcode ==
  /\ executor.Result = "rejected"
  /\ rootName \notin rootsOfAlternatives
  /\ executor.MIs[1].Opcode \in 2..Len(JumpTable) - 1


\* The entries of the try block that starts at i, comments left out.
tryBlock(i) ==
  {j \in i + 1..labelIdx(MatchTable0[i].OnFail) - 1 :
     MatchTable0[j].op \notin {"Label", "Rule"}}
checksOf(i) == {j \in tryBlock(i) : isCheck(MatchTable0[j].op)}
actionsOf(i) == {j \in tryBlock(i) : isAction(MatchTable0[j].op)}
RECURSIVE inOrder(_)
inOrder(S) ==
  IF S = {} THEN <<>>
  ELSE LET j == CHOOSE x \in S : \A y \in S : x <= y
       IN  <<MatchTable0[j]>> \o inOrder(S \ {j})
expectedActions ==
  << [op |-> "GIR_MakeTempReg", TempRegID |-> 0, TypeID |-> "GILLT_s32"],
     [op |-> "GIR_BuildConstant", TempRegID |-> 0, Val |-> 0],
     [op |-> "GIR_BuildMI", InsnID |-> 0, Opcode |-> "COPY"],
     [op |-> "GIR_Copy", NewInsnID |-> 0, OldInsnID |-> 0, OpIdx |-> 0],
     [op |-> "GIR_AddSimpleTempRegister", InsnID |-> 0, TempRegID |-> 0],
     [op |-> "GIR_EraseFromParent", InsnID |-> 0],
     [op |-> "GIR_Done"] >>
secondInstructionChecks(insts) ==
  << [op |-> "GIM_RecordInsnIgnoreCopies", DefineMI |-> 1, MI |-> 0, OpIdx |-> 1],
     [op |-> "GIM_CheckOpcode", MI |-> 1, Opcode |-> insts[2]],
     [op |-> "GIM_CheckIsSafeToFold", InsnID |-> 1] >>
replacementBuilt ==
  /\ executor.TempRegisters = <<[Type |-> "GILLT_s32", Constant |-> <<0>>]>>
  /\ Len(executor.OutMIs) = 1
  /\ executor.OutMIs[1].Opcode = "COPY"
  /\ Len(executor.OutMIs[1].Operands) = 2
  /\ executor.OutMIs[1].Operands[1] = [OldInsnID |-> 0, OpIdx |-> 0]
  /\ executor.OutMIs[1].Operands[2] = [TempRegID |-> 0]

\* C13: in every try block of the table the checks precede the actions and
\* the actions are MakeTempReg s32, BuildConstant 0, BuildMI COPY, Copy of
\* operand 0 of the root, AddSimpleTempRegister, EraseFromParent of the
\* root, Done; the blocks of the alternatives of one instruction check the
\* rule predicate only, and the block of the alternative of two
\* instructions also records MIs[1], checks its opcode and checks that it is
\* safe to fold.  In an execution no check follows an action, the root is
\* erased only when the replacement is built, at most once, and exactly
\* once in a match; MIs[1] is recorded for a G_ZEXT root only.
C13_ChecksThenActions ==
  /\ \A i \in entriesOf("GIM_Try") :
       LET alt == MatchFooPerms[MatchTable0[i].RuleID + 1]
       IN  /\ \A c \in checksOf(i), a \in actionsOf(i) : c < a
           /\ inOrder(actionsOf(i)) = expectedActions
           /\ inOrder(checksOf(i)) =
                <<[op |-> "GIM_CheckSimplePredicate",
                   Pred |-> "GICXXPred_Simple_IsRule0Enabled"]>>
                \o (IF Len(alt.insts) > 1 THEN secondInstructionChecks(alt.insts)
                    ELSE <<>>)
  /\ \A a, c \in 1..Len(executor.Executed) :
       isAction(executor.Executed[a]) /\ isCheck(executor.Executed[c]) => c < a
  /\ Len(executor.Erased) <= 1
  /\ executor.Erased # <<>> => executor.Erased = <<0>> /\ replacementBuilt
  /\ executor.Result = "matched" =>
       /\ executor.Erased = <<0>>
       /\ executor.Executed[Len(executor.Executed)] = "GIR_Done"
       /\ [i \in 1..Len(expectedActions) |->
             executor.Executed[Len(executor.Executed) - Len(expectedActions) + i]]
          = [i \in 1..Len(expectedActions) |-> expectedActions[i].op]
  /\ Len(executor.MIs) > 1 => rootName = "G_ZEXT" /\ Len(executor.MIs) = 2

\* A G_ZEXT fed by a G_TRUNC has been replaced.
C13_Witness ==
  /\ executor.Result = "matched"
  /\ rootName = "G_ZEXT"
  /\ Len(executor.MIs) = 2
  /\ executor.Erased = <<0>>

-----------------------------------------------------------------------------
\* Properties of the export instructions

instructions ==
  {i \in 1..Len(Records) :
     Records[i].Class \in {"EXP_Pseudo", "EXP_Real_ComprVM", "EXP_Real_Row"}}
reals == {i \in instructions : Records[i].isPseudo = 0}
realsOf(subtargets) == {i \in reals : Records[i].Subtarget \in subtargets}
pseudoOf(r) == cast(r.PseudoInstr)
allDefined == \A k \in parsed + 1..Len(Statements) : Statements[k].stmt \notin {"def", "defm"}
endsWith(s, suffix) ==
  Len(suffix) <= Len(s) /\ SubSeq(s, Len(s) - Len(suffix) + 1, Len(s)) = suffix
contains(s, sub) ==
  \E k \in 1..Len(s) - Len(sub) + 1 : SubSeq(s, k, k + Len(sub) - 1) = sub

commonFields(r) ==
  /\ r.mayLoad = r.done
  /\ r.Uses = IF r.row = 1 THEN <<"EXEC", "M0">> ELSE <<"EXEC">>
  /\ r.mayStore = 1 /\ r.EXP = 1 /\ r.EXP_CNT = 1 /\ r.maybeAtomic = 0

realsFollowPseudos ==
  /\ \A i \in reals : Records[i].done = pseudoOf(Records[i]).done
  /\ \A i \in realsOf({"SI", "VI", "GFX10"}) :
       /\ Records[i].PseudoInstr \in {"EXP", "EXP_DONE"}
       /\ Records[i].row = 0
  /\ \A i \in realsOf({"GFX11", "GFX12"}) : Records[i].row = pseudoOf(Records[i]).row
  /\ allDefined =>
       /\ \A s \in {"SI", "VI", "GFX10"} :
            {Records[i].PseudoInstr : i \in realsOf({s})} = {"EXP", "EXP_DONE"}
       /\ \A s \in {"GFX11", "GFX12"} :
            {Records[i].PseudoInstr : i \in realsOf({s})}
              = {"EXP", "EXP_DONE", "EXP_ROW", "EXP_ROW_DONE"}
       /\ \A s \in {"SI", "VI", "GFX10", "GFX11", "GFX12"} :
            \A i, j \in realsOf({s}) :
              Records[i].PseudoInstr = Records[j].PseudoInstr => i = j

\* C14 as stated: the asm string of a real instruction ends with " done"
\* iff its done bit is set.
C14_AsStated ==
  /\ \A i \in instructions : commonFields(Records[i])
  /\ realsFollowPseudos
  /\ \A i \in reals :
       /\ endsWith(Records[i].AsmString, " done") <=> Records[i].done = 1
       /\ contains(Records[i].AsmString, " row_en") <=> Records[i].row = 1

\* C14: every export instruction record, pseudo or real, has mayLoad equal
\* to its done bit, the uses [EXEC, M0] with the row bit and [EXEC] without
\* it, mayStore = 1, EXP = 1, EXP_CNT = 1 and maybeAtomic = 0; a real has
\* the done bit of its pseudo; the SI, VI and GFX10 reals are those of EXP
\* and EXP_DONE and have row = 0, the GFX11 and GFX12 reals are those of all
\* four pseudos and have the row bit of their pseudo; and the asm string of
\* a real contains " done" iff done and contains " row_en" iff row, where
\* " done" is followed by the operands $compr$vm or by " row_en" and ends
\* the string only in a GFX11 or GFX12 real without the row bit.
C14_ExportRecords ==
  /\ \A i \in instructions : commonFields(Records[i])
  /\ realsFollowPseudos
  /\ \A i \in reals :
       /\ contains(Records[i].AsmString, " done") <=> Records[i].done = 1
       /\ contains(Records[i].AsmString, " row_en") <=> Records[i].row = 1
       /\ endsWith(Records[i].AsmString, " done") <=>
            /\ Records[i].done = 1 /\ Records[i].row = 0
            /\ Records[i].Subtarget \in {"GFX11", "GFX12"}

\* All the instructions are defined, with reals of every family and of
\* every combination of the row and done bits.
C14_Witness ==
  /\ allDefined
  /\ \A row \in 0..1, done \in 0..1 :
       \E i \in realsOf({"GFX12"}) : Records[i].row = row /\ Records[i].done = done
  /\ \E i \in realsOf({"SI"}) : Records[i].done = 1

result_of == selection[1].selected[1]
call_of == selection[1].call
selected == has_value(selection) /\ has_value(selection[1].selected)

\* C15: the instruction selected for a call of an export intrinsic is
\* given by the intrinsic and done: int_amdgcn_exp and int_amdgcn_exp_compr
\* give EXP for done = 0 and EXP_DONE for done = -1, int_amdgcn_exp_row
\* gives EXP_ROW and EXP_ROW_DONE; tgt, en, src0 and src1 are those of the
\* call; int_amdgcn_exp has compr = 0, the vm, src2 and src3 of the call;
\* int_amdgcn_exp_compr has compr = 1, the vm of the call and IMPLICIT_DEF
\* for src2 and src3; int_amdgcn_exp_row has vm = 0, compr = 0 and the src2
\* and src3 of the call.
C15_ExportSelection ==
  selected =>
    /\ result_of.Inst =
         CASE call_of.intrinsic = "int_amdgcn_exp_row" ->
                IF call_of.done = 0 THEN "EXP_ROW" ELSE "EXP_ROW_DONE"
           [] OTHER -> IF call_of.done = 0 THEN "EXP" ELSE "EXP_DONE"
    /\ call_of.done \in {0, 0 - 1}
    /\ result_of.tgt = call_of.tgt /\ result_of.en = call_of.en
    /\ result_of.src0 = call_of.src[1] /\ result_of.src1 = call_of.src[2]
    /\ call_of.intrinsic = "int_amdgcn_exp" =>
         /\ result_of.compr = 0 /\ result_of.vm = call_of.vm
         /\ result_of.src2 = call_of.src[3] /\ result_of.src3 = call_of.src[4]
    /\ call_of.intrinsic = "int_amdgcn_exp_compr" =>
         /\ result_of.compr = 1 /\ result_of.vm = call_of.vm
         /\ result_of.src2 = "IMPLICIT_DEF" /\ result_of.src3 = "IMPLICIT_DEF"
    /\ call_of.intrinsic = "int_amdgcn_exp_row" =>
         /\ result_of.compr = 0 /\ result_of.vm = 0
         /\ result_of.src2 = call_of.src[3] /\ result_of.src3 = call_of.src[4]
    /\ \E i \in instructions :
         /\ Records[i].Name = result_of.Inst
         /\ Records[i].isPseudo = 1
         /\ Records[i].row = IF call_of.intrinsic = "int_amdgcn_exp_row" THEN 1 ELSE 0
         /\ Records[i].done = IF call_of.done = 0 THEN 0 ELSE 1

\* A compressed export with done and vm set has been selected.
C15_Witness ==
  /\ selected
  /\ call_of.intrinsic = "int_amdgcn_exp_compr"
  /\ call_of.done = 0 - 1
  /\ call_of.vm = 1
  /\ result_of.Inst = "EXP_DONE"

\* A row export has been selected.
C15_WitnessRow ==
  /\ selected
  /\ call_of.intrinsic = "int_amdgcn_exp_row"
  /\ call_of.vm = 1
  /\ result_of.Inst = "EXP_ROW"

-----------------------------------------------------------------------------
\* Properties of the binding use and of the order of the body

resultKinds == {"result", "results"}
usersOf(op) == {user \in Ids : op \in operandsOf(user)}

\* The operations at the end of a chain op -> r1 -> ... -> rk of users in
\* which every ri is a pdl.result or a pdl.results, op itself included.
RECURSIVE resultChains(_, _)
resultChains(op, S) ==
  LET T == S \cup {r \in UNION {usersOf(x) : x \in S} : kindOf(r) \in resultKinds}
  IN  IF T = S THEN S ELSE resultChains(op, T)

bindingUsers(op) ==
  {u \in UNION {usersOf(x) : x \in resultChains(op, {op})} : kindOf(u) \notin resultKinds}

\* C16: in a verified pattern hasBindingUse(op) is true exactly when a chain of users
\* op -> r1 -> ... -> rk -> u exists, k >= 0, every ri a pdl.result or
\* pdl.results and u of another kind, wherever u is; so a user of another
\* kind binds by itself, a result user binds only if it is bound, and an
\* operation without users or with unused result chains only is not bound.
C16_BindingChains ==
  verified =>
    \A op \in Ids :
      /\ hasBindingUse(op) <=> bindingUsers(op) # {}
      /\ (\E u \in usersOf(op) : kindOf(u) \notin resultKinds) => hasBindingUse(op)
      /\ (\A u \in usersOf(op) : kindOf(u) \in resultKinds /\ ~hasBindingUse(u))
           => ~hasBindingUse(op)
      /\ usersOf(op) = {} => ~hasBindingUse(op)

\* Verified patterns in which an operation is bound through a pdl.results
\* only, by the pdl.rewrite.
C16_Witness ==
  /\ verified
  /\ \E op \in Ids :
       /\ hasBindingUse(op)
       /\ usersOf(op) # {}
       /\ \A u \in usersOf(op) : kindOf(u) = "results"
       /\ \E u \in bindingUsers(op) : kindOf(u) = "rewrite"

\* An operation whose only user is an unused pdl.result is not bound.
C16_WitnessUnbound ==
  /\ verified
  /\ \E op \in Ids :
       /\ ~hasBindingUse(op)
       /\ usersOf(op) # {}
       /\ opDiag[op] = emitOpError(ErrBindableUser)


reorders == pc = "done" /\ pc' = "done" /\ ops' # ops

\* C17 as stated: two orders of the same body that respect dominance get
\* the same verdict of verifyRegions.
C17_AsStated ==
  [][reorders => succeeded(patDiag') = succeeded(patDiag)]_vars

kindsAre(s) == Len(ops) = Len(s) /\ \A i \in Ids : kindOf(i) = s[i]

\* The body X, C(X), B(C), A(X) with A and B used by the rewrite is
\* rejected: the search starts at B and does not go from C to X.
C17_RejectedOrder ==
  /\ pc = "done"
  /\ kindsAre(<<"operand", "apply_native_constraint", "operation", "operation", "rewrite">>)
  /\ ops[2].args = <<1>> /\ ops[3].args = <<2>> /\ ops[4].args = <<1>>
  /\ Range(ops[5].args) = {3, 4}
  /\ patDiag.msg = ErrConnected

\* The same body in the order X, A(X), C(X), B(C) is accepted.
C17_AcceptedOrder ==
  /\ pc = "done"
  /\ kindsAre(<<"operand", "operation", "apply_native_constraint", "operation", "rewrite">>)
  /\ ops[2].args = <<1>> /\ ops[3].args = <<1>> /\ ops[4].args = <<3>>
  /\ Range(ops[5].args) = {2, 4}
  /\ patDiag = success

\* A result of a pdl.apply_native_constraint is the type of an operand or
\* an operand of an operation.
constraintResultUsed ==
  \E c \in Ids :
    /\ kindOf(c) = "apply_native_constraint"
    /\ \E user \in getUsers(c) : kindOf(user) \in {"operand", "operation"}

\* C17, for the bodies in which no result of a constraint is used by an
\* operand or an operation: two orders of the body that respect dominance
\* get the same verdict of verifyRegions.
C17_OrderWithoutConstraintResults ==
  [][reorders /\ ~constraintResultUsed => succeeded(patDiag') = succeeded(patDiag)]_vars


componentKinds == {"operand", "operands", "result", "results", "operation"}
ignored == {op \in Ids : inMatcher(op) /\ kindOf(op) \in componentKinds /\ ~usedInRewrite(op)}

\* C18: the connected-component check looks only at the operands, results
\* and operations with a user that is the pdl.rewrite or is in its block:
\* the operation it reports has such a user and is not reached from the
\* first operation with such a user, so an operation without such a user is
\* neither reported nor the start of the search, whether it precedes the
\* start or is not reached from it; and without any operation with such a
\* user the check passes.
C18_AttentionToRewriteUsers ==
  pc = "done" /\ earlierChecksPass =>
    /\ patDiag.msg = ErrConnected =>
         /\ patDiag.at \notin ignored
         /\ patDiag.at \in componentCandidates
         /\ patDiag.at \notin reachedFrom(Min(componentCandidates))
         /\ patDiag.at > Min(componentCandidates)
    /\ componentCandidates = {} => patDiag = success
    /\ /\ componentCandidates # {}
       /\ componentCandidates \subseteq reachedFrom(Min(componentCandidates))
       => patDiag = success

\* An accepted pattern in which an operand without a user in the rewrite
\* precedes the start of the search and is traversed by it, and an
\* operation without a user in the rewrite is not reached.
C18_Witness ==
  /\ pc = "done" /\ earlierChecksPass
  /\ patDiag = success
  /\ componentCandidates # {}
  /\ \E op \in ignored :
       op < Min(componentCandidates) /\ op \in reachedFrom(Min(componentCandidates))
  /\ \E op \in ignored : op \notin reachedFrom(Min(componentCandidates))

====
